---- MODULE Spec2Model ----
(***************************************************************************)
(* Retro AI Minesweeper: the board engine (utils/gameLogic.ts), the hint   *)
(* engine (ai/hintEngine.ts) and the mine placer (ai/minePlacer.ts).       *)
(* A board is a record shaped like BoardState; cells is a function from    *)
(* positions [row, col] to Cell records.  Math.random() is a               *)
(* nondeterministic choice.                                                *)
(***************************************************************************)
EXTENDS Integers, Sequences, FiniteSets, TLC

\* ---- bounds of the exploration ----
W == 3
H == 2
MaxMines == 2
MaxOps == 2
MaxHandlerCalls == 3
MaxGames == 6
MaxHintsPerGame == 4
BalanceW == 4
BalanceH == 3
BalanceMines == 4
MaxSaves == 3
HintW == 4
HintH == 3
HintMines == 1
HintOps == 2

\* ---- program constants ----
maxAttempts == 50
maxIterations == 100
TopK == 5
JitterMilli == 2000
EdgePenaltyMilli == 500
SolveThresholdTenths == 7

NoSafeZone == [row |-> -9, col |-> -9]

\* ---- inputs ----
Positions(width, height) ==
  {[row |-> r, col |-> c] : r \in 0..(height - 1), c \in 0..(width - 1)}

\* the mine counts a caller asks for: a few small ones and one larger than the board
MineCounts == (0..MaxMines) \cup {W * H + 1}

SafeZones == Positions(W, H) \cup {NoSafeZone}

\* positions a caller may pass: every cell and one position outside the board
CallPositions == Positions(W, H) \cup {[row |-> 0, col |-> W]}

VARIABLES board, pc, attempts, genArgs, path, ops, game, adapter

vars == <<board, pc, attempts, genArgs, path, ops, game, adapter>>

\* ---- helpers ----
Abs(x) == IF x < 0 THEN -x ELSE x

Min(a, b) == IF a < b THEN a ELSE b

RECURSIVE IsqrtSearch(_, _, _)
IsqrtSearch(n, lo, hi) ==
  IF lo >= hi THEN lo
  ELSE LET mid == (lo + hi + 1) \div 2
       IN IF mid * mid <= n THEN IsqrtSearch(n, mid, hi) ELSE IsqrtSearch(n, lo, mid - 1)

\* floor of the square root, for n below 2^31
Isqrt(n) == IsqrtSearch(n, 0, Min(n, 46340))

RECURSIVE SumOver(_, _)
SumOver(S, f) ==
  IF S = {} THEN 0
  ELSE LET x == CHOOSE y \in S : TRUE IN f[x] + SumOver(S \ {x}, f)

RowMajor(width, height) ==
  [i \in 1..(width * height) |-> [row |-> (i - 1) \div width, col |-> (i - 1) % width]]

SeqToSet(s) == {s[i] : i \in 1..Len(s)}

\* ---- utils/gameLogic.ts ----
createEmptyBoard(width, height) ==
  [cells |-> [p \in Positions(width, height) |->
                [state |-> "hidden", hasMine |-> FALSE, adjacentMines |-> 0, position |-> p]],
   width |-> width,
   height |-> height,
   mineCount |-> 0,
   revealedCount |-> 0,
   flaggedCount |-> 0,
   gameStatus |-> "playing",
   firstClick |-> TRUE]

isValidPosition(b, position) ==
  /\ position.row >= 0 /\ position.row < b.height
  /\ position.col >= 0 /\ position.col < b.width

\* mutant: the diagonal neighbours are not counted
countAdjacentMines_orthogonalOnly(b, position) ==
  Cardinality({q \in Positions(b.width, b.height) :
                 /\ Abs(q.row - position.row) + Abs(q.col - position.col) = 1
                 /\ b.cells[q].hasMine})

countAdjacentMines(b, position) ==
  Cardinality({q \in Positions(b.width, b.height) :
                 /\ q.row >= position.row - 1 /\ q.row <= position.row + 1
                 /\ q.col >= position.col - 1 /\ q.col <= position.col + 1
                 /\ (q.row # position.row \/ q.col # position.col)
                 /\ b.cells[q].hasMine})

\* the in-bounds neighbours in the order of the two nested loops
getAdjacentPositions(b, position) ==
  LET around == [i \in 1..9 |-> [row |-> position.row - 1 + ((i - 1) \div 3),
                                 col |-> position.col - 1 + ((i - 1) % 3)]]
      keep(q) == /\ q.row >= 0 /\ q.row < b.height /\ q.col >= 0 /\ q.col < b.width
                 /\ (q.row # position.row \/ q.col # position.col)
  IN SelectSeq(around, keep)

calculateAdjacentMines(b) ==
  [b EXCEPT !.cells = [p \in DOMAIN b.cells |->
     IF ~b.cells[p].hasMine
       THEN [b.cells[p] EXCEPT !.adjacentMines = countAdjacentMines(b, p)]
       ELSE b.cells[p]]]

\* mutant: only the clicked cell is kept free, its neighbours are not
isInSafeZone_clickedCellOnly(row, col, safeZone) ==
  row = safeZone.row /\ col = safeZone.col

\* mutant: the row is compared with the safe zone's column and the column with its row
isInSafeZone_swappedAxes(row, col, safeZone) ==
  Abs(row - safeZone.col) <= 1 /\ Abs(col - safeZone.row) <= 1

isInSafeZone(row, col, safeZone) ==
  Abs(row - safeZone.row) <= 1 /\ Abs(col - safeZone.col) <= 1

placeMinesAvailable(b, safeZone) ==
  {p \in Positions(b.width, b.height) :
     IF safeZone # NoSafeZone THEN ~isInSafeZone(p.row, p.col, safeZone) ELSE TRUE}

\* the prefixes of length minesToPlace the random shuffle can produce
placeMinesChoices(b, mineCount, safeZone) ==
  LET availablePositions == placeMinesAvailable(b, safeZone)
      minesToPlace == Min(mineCount, Cardinality(availablePositions))
  IN {S \in SUBSET availablePositions : Cardinality(S) = minesToPlace}

\* shuffledPrefix: the first minesToPlace positions of the shuffled array
placeMines(b, mineCount, safeZone, shuffledPrefix) ==
  calculateAdjacentMines(
    [b EXCEPT !.mineCount = mineCount,
              !.cells = [p \in DOMAIN b.cells |->
                 IF p \in shuffledPrefix THEN [b.cells[p] EXCEPT !.hasMine = TRUE]
                 ELSE b.cells[p]]])

\* mutant: every newly revealed neighbour is queued, numbered or not
RECURSIVE floodNeighbours_queueAll(_, _, _)
floodNeighbours_queueAll(st, adjacentPositions, i) ==
  IF i > Len(adjacentPositions) THEN st
  ELSE LET adjPos == adjacentPositions[i]
           adjCell == st.cells[adjPos]
       IN IF adjCell.state = "hidden" /\ ~adjCell.hasMine
            THEN floodNeighbours_queueAll(
                   [cells |-> [st.cells EXCEPT ![adjPos].state = "revealed"],
                    count |-> st.count + 1,
                    stack |-> Append(st.stack, adjPos)],
                   adjacentPositions, i + 1)
            ELSE floodNeighbours_queueAll(st, adjacentPositions, i + 1)

\* mutant: a neighbour is revealed and counted whether hidden or already revealed
RECURSIVE floodNeighbours_revealAgain(_, _, _)
floodNeighbours_revealAgain(st, adjacentPositions, i) ==
  IF i > Len(adjacentPositions) THEN st
  ELSE LET adjPos == adjacentPositions[i]
           adjCell == st.cells[adjPos]
       IN IF adjCell.state \in {"hidden", "revealed"} /\ ~adjCell.hasMine
            THEN floodNeighbours_revealAgain(
                   [cells |-> [st.cells EXCEPT ![adjPos].state = "revealed"],
                    count |-> st.count + 1,
                    stack |-> IF adjCell.adjacentMines = 0
                                THEN Append(st.stack, adjPos) ELSE st.stack],
                   adjacentPositions, i + 1)
            ELSE floodNeighbours_revealAgain(st, adjacentPositions, i + 1)

\* one pass of the for loop over adjacentPositions (lines 187-199); st = [cells, count, stack]
RECURSIVE floodNeighbours(_, _, _)
floodNeighbours(st, adjacentPositions, i) ==
  IF i > Len(adjacentPositions) THEN st
  ELSE LET adjPos == adjacentPositions[i]
           adjCell == st.cells[adjPos]
       IN IF adjCell.state = "hidden" /\ ~adjCell.hasMine
            THEN floodNeighbours(
                   [cells |-> [st.cells EXCEPT ![adjPos].state = "revealed"],
                    count |-> st.count + 1,
                    stack |-> IF adjCell.adjacentMines = 0
                                THEN Append(st.stack, adjPos) ELSE st.stack],
                   adjacentPositions, i + 1)
            ELSE floodNeighbours(st, adjacentPositions, i + 1)

\* the while loop over toReveal (lines 178-200)
RECURSIVE floodFill(_, _, _)
floodFill(b, st, visited) ==
  IF Len(st.stack) = 0 THEN st
  ELSE LET current == st.stack[Len(st.stack)]
           popped == [st EXCEPT !.stack = SubSeq(st.stack, 1, Len(st.stack) - 1)]
       IN IF current \in visited
            THEN floodFill(b, popped, visited)
            ELSE floodFill(b, floodNeighbours(popped, getAdjacentPositions(b, current), 1),
                           visited \cup {current})

\* the same loop with its bookkeeping: the positions expanded (added to visited
\* and scanned), in order, and the number of passes through the while loop
RECURSIVE floodFillTrace(_, _, _, _, _)
floodFillTrace(b, st, visited, expanded, iterations) ==
  IF Len(st.stack) = 0 THEN [st |-> st, expanded |-> expanded, iterations |-> iterations]
  ELSE LET current == st.stack[Len(st.stack)]
           popped == [st EXCEPT !.stack = SubSeq(st.stack, 1, Len(st.stack) - 1)]
       IN IF current \in visited
            THEN floodFillTrace(b, popped, visited, expanded, iterations + 1)
            ELSE floodFillTrace(b, floodNeighbours(popped, getAdjacentPositions(b, current), 1),
                                visited \cup {current}, Append(expanded, current),
                                iterations + 1)

\* mutant: a flagged cell is revealed like a hidden one
revealCell_flagNotLocked(b, position) ==
  IF ~isValidPosition(b, position) THEN b
  ELSE LET cell == b.cells[position]
       IN IF cell.state = "revealed" THEN b
          ELSE IF cell.hasMine
            THEN [b EXCEPT !.firstClick = FALSE,
                           !.gameStatus = "lost",
                           !.cells = [p \in DOMAIN b.cells |->
                              IF p = position THEN [b.cells[p] EXCEPT !.state = "exploded"]
                              ELSE IF b.cells[p].hasMine /\ b.cells[p].state # "exploded"
                                THEN [b.cells[p] EXCEPT !.state = "mine"]
                                ELSE b.cells[p]]]
            ELSE LET start == [cells |-> [b.cells EXCEPT ![position].state = "revealed"],
                               count |-> b.revealedCount + 1,
                               stack |-> <<position>>]
                     done == IF cell.adjacentMines = 0
                               THEN floodFill(b, start, {})
                               ELSE start
                     totalCells == b.width * b.height
                 IN [b EXCEPT !.firstClick = FALSE,
                              !.cells = done.cells,
                              !.revealedCount = done.count,
                              !.gameStatus = IF done.count = totalCells - b.mineCount
                                               THEN "won" ELSE b.gameStatus]

\* mutant: the clicked cell is revealed without being counted
revealCell_clickedNotCounted(b, position) ==
  IF ~isValidPosition(b, position) THEN b
  ELSE LET cell == b.cells[position]
       IN IF cell.state = "revealed" \/ cell.state = "flagged" THEN b
          ELSE IF cell.hasMine
            THEN [b EXCEPT !.firstClick = FALSE,
                           !.gameStatus = "lost",
                           !.cells = [p \in DOMAIN b.cells |->
                              IF p = position THEN [b.cells[p] EXCEPT !.state = "exploded"]
                              ELSE IF b.cells[p].hasMine /\ b.cells[p].state # "exploded"
                                THEN [b.cells[p] EXCEPT !.state = "mine"]
                                ELSE b.cells[p]]]
            ELSE LET start == [cells |-> [b.cells EXCEPT ![position].state = "revealed"],
                               count |-> b.revealedCount,
                               stack |-> <<position>>]
                     done == IF cell.adjacentMines = 0
                               THEN floodFill(b, start, {})
                               ELSE start
                     totalCells == b.width * b.height
                 IN [b EXCEPT !.firstClick = FALSE,
                              !.cells = done.cells,
                              !.revealedCount = done.count,
                              !.gameStatus = IF done.count = totalCells - b.mineCount
                                               THEN "won" ELSE b.gameStatus]

\* revealCell(board, position), lines 135-210
revealCell(b, position) ==
  IF ~isValidPosition(b, position) THEN b
  ELSE LET cell == b.cells[position]
       IN IF cell.state = "revealed" \/ cell.state = "flagged" THEN b
          ELSE IF cell.hasMine
            THEN [b EXCEPT !.firstClick = FALSE,
                           !.gameStatus = "lost",
                           !.cells = [p \in DOMAIN b.cells |->
                              IF p = position THEN [b.cells[p] EXCEPT !.state = "exploded"]
                              ELSE IF b.cells[p].hasMine /\ b.cells[p].state # "exploded"
                                THEN [b.cells[p] EXCEPT !.state = "mine"]
                                ELSE b.cells[p]]]
            ELSE LET start == [cells |-> [b.cells EXCEPT ![position].state = "revealed"],
                               count |-> b.revealedCount + 1,
                               stack |-> <<position>>]
                     done == IF cell.adjacentMines = 0
                               THEN floodFill(b, start, {})
                               ELSE start
                     totalCells == b.width * b.height
                 IN [b EXCEPT !.firstClick = FALSE,
                              !.cells = done.cells,
                              !.revealedCount = done.count,
                              !.gameStatus = IF done.count = totalCells - b.mineCount
                                               THEN "won" ELSE b.gameStatus]

\* mutant: only 'revealed' cells are locked, 'mine' and 'exploded' cells can be flagged
toggleFlag_revealedLockOnly(b, position) ==
  IF ~isValidPosition(b, position) THEN b
  ELSE LET cell == b.cells[position]
       IN IF cell.state = "revealed" THEN b
          ELSE IF cell.state = "flagged"
            THEN [b EXCEPT !.cells[position].state = "hidden",
                           !.flaggedCount = b.flaggedCount - 1]
            ELSE [b EXCEPT !.cells[position].state = "flagged",
                           !.flaggedCount = b.flaggedCount + 1]

\* mutant: removing a flag does not decrement flaggedCount
toggleFlag_unflagKeepsCount(b, position) ==
  IF ~isValidPosition(b, position) THEN b
  ELSE LET cell == b.cells[position]
       IN IF cell.state = "revealed" \/ cell.state = "mine" \/ cell.state = "exploded" THEN b
          ELSE IF cell.state = "flagged"
            THEN [b EXCEPT !.cells[position].state = "hidden"]
            ELSE [b EXCEPT !.cells[position].state = "flagged",
                           !.flaggedCount = b.flaggedCount + 1]

toggleFlag(b, position) ==
  IF ~isValidPosition(b, position) THEN b
  ELSE LET cell == b.cells[position]
       IN IF cell.state = "revealed" \/ cell.state = "mine" \/ cell.state = "exploded" THEN b
          ELSE IF cell.state = "flagged"
            THEN [b EXCEPT !.cells[position].state = "hidden",
                           !.flaggedCount = b.flaggedCount - 1]
            ELSE [b EXCEPT !.cells[position].state = "flagged",
                           !.flaggedCount = b.flaggedCount + 1]

\* ---- ai/hintEngine.ts ----
\* mutant: the list is returned as collected
removeDuplicatePositions_keepAll(positions) == positions

\* keeps the first occurrence of every position
RECURSIVE removeDuplicatePositions(_)
removeDuplicatePositions(positions) ==
  IF Len(positions) = 0 THEN <<>>
  ELSE LET front == removeDuplicatePositions(SubSeq(positions, 1, Len(positions) - 1))
           pos == positions[Len(positions)]
       IN IF pos \in SeqToSet(front) THEN front ELSE Append(front, pos)

\* mutant: the flagged neighbours are not compared with the clue
safeMovesAround_noFlagTest(b, position) ==
  LET cell == b.cells[position]
  IN IF cell.state = "revealed" /\ cell.adjacentMines > 0
       THEN SelectSeq(getAdjacentPositions(b, position), LAMBDA q : b.cells[q].state = "hidden")
       ELSE <<>>

\* mutant: the clue only has to cover the flagged neighbours
safeMovesAround_flagsAtMost(b, position) ==
  LET cell == b.cells[position]
  IN IF cell.state = "revealed" /\ cell.adjacentMines > 0
       THEN LET adjacentPositions == getAdjacentPositions(b, position)
                flaggedCount == Len(SelectSeq(adjacentPositions,
                                   LAMBDA q : b.cells[q].state = "flagged"))
                hiddenCells == SelectSeq(adjacentPositions,
                                   LAMBDA q : b.cells[q].state = "hidden")
            IN IF flaggedCount <= cell.adjacentMines /\ Len(hiddenCells) > 0
                 THEN hiddenCells ELSE <<>>
       ELSE <<>>

\* the hidden neighbours a revealed numbered cell contributes (lines 63-75)
safeMovesAround(b, position) ==
  LET cell == b.cells[position]
  IN IF cell.state = "revealed" /\ cell.adjacentMines > 0
       THEN LET adjacentPositions == getAdjacentPositions(b, position)
                flaggedCount == Len(SelectSeq(adjacentPositions,
                                   LAMBDA q : b.cells[q].state = "flagged"))
                hiddenCells == SelectSeq(adjacentPositions,
                                   LAMBDA q : b.cells[q].state = "hidden")
            IN IF flaggedCount = cell.adjacentMines /\ Len(hiddenCells) > 0
                 THEN hiddenCells ELSE <<>>
       ELSE <<>>

RECURSIVE collectSafeMoves(_, _)
collectSafeMoves(b, i) ==
  IF i = 0 THEN <<>>
  ELSE collectSafeMoves(b, i - 1) \o safeMovesAround(b, RowMajor(b.width, b.height)[i])

findSafeMoves(b) ==
  removeDuplicatePositions(collectSafeMoves(b, b.width * b.height))

\* mutant: the hidden neighbours that must all be mines are collected
logicalMovesAround_collects(b, position) ==
  LET cell == b.cells[position]
  IN IF cell.state = "revealed" /\ cell.adjacentMines > 0
       THEN LET adjacentPositions == getAdjacentPositions(b, position)
                flaggedCount == Len(SelectSeq(adjacentPositions,
                                   LAMBDA q : b.cells[q].state = "flagged"))
                hiddenPositions == SelectSeq(adjacentPositions,
                                   LAMBDA q : b.cells[q].state = "hidden")
            IN IF flaggedCount + Len(hiddenPositions) = cell.adjacentMines
                    /\ Len(hiddenPositions) > 0
                 THEN hiddenPositions
                 ELSE <<>>
       ELSE <<>>

\* what one cell adds to logicalMoves (lines 92-109): the branch that finds the
\* hidden neighbours that must all be mines only continues, the other adds nothing
logicalMovesAround(b, position) ==
  LET cell == b.cells[position]
  IN IF cell.state = "revealed" /\ cell.adjacentMines > 0
       THEN LET adjacentPositions == getAdjacentPositions(b, position)
                flaggedCount == Len(SelectSeq(adjacentPositions,
                                   LAMBDA q : b.cells[q].state = "flagged"))
                hiddenPositions == SelectSeq(adjacentPositions,
                                   LAMBDA q : b.cells[q].state = "hidden")
            IN IF flaggedCount + Len(hiddenPositions) = cell.adjacentMines
                    /\ Len(hiddenPositions) > 0
                 THEN <<>>
                 ELSE <<>>
       ELSE <<>>

RECURSIVE collectLogicalMoves(_, _)
collectLogicalMoves(b, i) ==
  IF i = 0 THEN <<>>
  ELSE collectLogicalMoves(b, i - 1) \o logicalMovesAround(b, RowMajor(b.width, b.height)[i])

\* findLogicalMoves (lines 86-116): nothing is ever pushed to logicalMoves
findLogicalMoves(b) == collectLogicalMoves(b, b.width * b.height)

\* getCellsByState of utils/gameLogic.ts: the positions in row-major order
getCellsByState(b, state) ==
  SelectSeq(RowMajor(b.width, b.height), LAMBDA q : b.cells[q].state = state)

\* a probability is the exact fraction num / den, den > 0; every hiddenCount is in
\* 1..8 and divides ProbabilityScale
ProbabilityScale == 840

RECURSIVE SumSeq(_)
SumSeq(seq) == IF Len(seq) = 0 THEN 0 ELSE seq[1] + SumSeq(Tail(seq))

\* (adjCell.adjacentMines - flaggedCount) / hiddenCount in units of 1/ProbabilityScale,
\* for a constraining neighbour adjPos (lines 147-157)
minesNeededScaled(b, adjPos) ==
  LET adjAdjacent == getAdjacentPositions(b, adjPos)
      flaggedCount == Len(SelectSeq(adjAdjacent, LAMBDA q : b.cells[q].state = "flagged"))
      hiddenCount == Len(SelectSeq(adjAdjacent, LAMBDA q : b.cells[q].state = "hidden"))
  IN (b.cells[adjPos].adjacentMines - flaggedCount) * (ProbabilityScale \div hiddenCount)

calculateSafeProbability(b, position) ==
  LET adjacentPositions == getAdjacentPositions(b, position)
      constraining(adjPos) ==
        /\ b.cells[adjPos].state = "revealed" /\ b.cells[adjPos].adjacentMines > 0
        /\ \E q \in SeqToSet(getAdjacentPositions(b, adjPos)) : b.cells[q].state = "hidden"
      constraints == SelectSeq(adjacentPositions, constraining)
      totalConstraints == Len(constraints)
      totalMinesNeeded == SumSeq([i \in 1..totalConstraints |->
                                    minesNeededScaled(b, constraints[i])])
  IN IF totalConstraints = 0
       THEN LET totalCells == b.width * b.height
                remainingCells == totalCells - b.revealedCount - b.flaggedCount
                remainingMines == b.mineCount - b.flaggedCount
            IN IF remainingCells > 0
                 THEN [num |-> remainingCells - remainingMines, den |-> remainingCells]
                 ELSE [num |-> 0, den |-> 1]
       ELSE LET one == ProbabilityScale * totalConstraints
                safe == one - totalMinesNeeded
            IN [num |-> IF safe < 0 THEN 0 ELSE Min(one, safe), den |-> one]

\* a.probability > b.probability
probabilityGreater(a, b) == a.num * b.den > b.num * a.den

\* Array.prototype.sort with (a, b) => b.probability - a.probability: descending and
\* stable, an entry goes behind every entry that is not smaller
RECURSIVE sortByProbability(_)
sortByProbability(moves) ==
  IF Len(moves) = 0 THEN <<>>
  ELSE LET front == sortByProbability(SubSeq(moves, 1, Len(moves) - 1))
           x == moves[Len(moves)]
           ahead == SelectSeq(front, LAMBDA y : ~probabilityGreater(x.probability, y.probability))
           behind == SelectSeq(front, LAMBDA y : probabilityGreater(x.probability, y.probability))
       IN ahead \o <<x>> \o behind

findProbabilityMoves(b) ==
  LET hiddenCells == getCellsByState(b, "hidden")
  IN sortByProbability([i \in 1..Len(hiddenCells) |->
                          [position |-> hiddenCells[i],
                           probability |-> calculateSafeProbability(b, hiddenCells[i])]])

calculateInformationGain(b, position) ==
  IF b.cells[position].adjacentMines = 0 THEN 10
  ELSE Len(SelectSeq(getAdjacentPositions(b, position), LAMBDA q : b.cells[q].state = "hidden"))

\* mutant: a move that only equals the best gain so far replaces the best move
RECURSIVE bestSafeMoveLoop_lastOfTies(_, _, _, _)
bestSafeMoveLoop_lastOfTies(b, safeMoves, i, st) ==
  IF i > Len(safeMoves) THEN st.bestMove
  ELSE LET informationGain == calculateInformationGain(b, safeMoves[i])
       IN IF informationGain >= st.maxInformationGain
            THEN bestSafeMoveLoop_lastOfTies(b, safeMoves, i + 1,
                   [bestMove |-> safeMoves[i], maxInformationGain |-> informationGain])
            ELSE bestSafeMoveLoop_lastOfTies(b, safeMoves, i + 1, st)

\* the for loop of selectBestSafeMove (lines 188-194); st = [bestMove, maxInformationGain]
RECURSIVE bestSafeMoveLoop(_, _, _, _)
bestSafeMoveLoop(b, safeMoves, i, st) ==
  IF i > Len(safeMoves) THEN st.bestMove
  ELSE LET informationGain == calculateInformationGain(b, safeMoves[i])
       IN IF informationGain > st.maxInformationGain
            THEN bestSafeMoveLoop(b, safeMoves, i + 1,
                   [bestMove |-> safeMoves[i], maxInformationGain |-> informationGain])
            ELSE bestSafeMoveLoop(b, safeMoves, i + 1, st)

selectBestSafeMove(b, safeMoves) ==
  IF Len(safeMoves) = 1 THEN safeMoves[1]
  ELSE bestSafeMoveLoop(b, safeMoves, 1, [bestMove |-> safeMoves[1], maxInformationGain |-> 0])

selectBestLogicalMove(b, logicalMoves) == logicalMoves[1]

\* analyzeBoard returning null
NoHint == [suggestedMove |-> NoSafeZone, moveType |-> "none", confidence |-> [num |-> 0, den |-> 1]]

\* the HintResult without its reasoning text
analyzeBoard(b) ==
  IF b.gameStatus # "playing" \/ b.firstClick THEN NoHint
  ELSE LET safeMoves == findSafeMoves(b)
           logicalMoves == findLogicalMoves(b)
           probabilityMoves == findProbabilityMoves(b)
       IN IF Len(safeMoves) > 0
            THEN [suggestedMove |-> selectBestSafeMove(b, safeMoves),
                  moveType |-> "safe", confidence |-> [num |-> 1, den |-> 1]]
          ELSE IF Len(logicalMoves) > 0
            THEN [suggestedMove |-> selectBestLogicalMove(b, logicalMoves),
                  moveType |-> "logical", confidence |-> [num |-> 9, den |-> 10]]
          ELSE IF Len(probabilityMoves) > 0
            THEN [suggestedMove |-> probabilityMoves[1].position,
                  moveType |-> "probability", confidence |-> probabilityMoves[1].probability]
          ELSE NoHint

\* ---- ai/minePlacer.ts ----
\* Math.sqrt of every squared distance on the board, in thousandths, rounded down
sqrtMilli == [n \in 0..((W - 1) * (W - 1) + (H - 1) * (H - 1)) |-> Isqrt(1000000 * n)]

euclideanDistanceMilli(pos1, pos2) ==
  LET dx == pos1.col - pos2.col
      dy == pos1.row - pos2.row
  IN sqrtMilli[dx * dx + dy * dy]

calculateEdgePenalty(position, width, height) ==
  (IF position.row = 0 \/ position.row = height - 1 THEN EdgePenaltyMilli ELSE 0)
  + (IF position.col = 0 \/ position.col = width - 1 THEN EdgePenaltyMilli ELSE 0)

\* the score without its random term, in thousandths, each distance rounded down
calculatePositionScore(position, placedMines, width, height) ==
  SumOver(placedMines, [mine \in placedMines |-> euclideanDistanceMilli(position, mine)])
  - calculateEdgePenalty(position, width, height)

\* The positions selectMinePosition can return.  After the first mine a position
\* is returned when it can sort among the first TopK: fewer than TopK others
\* score higher whatever the random terms in [0, 2) are.  The rounding of the
\* distances (below one thousandth each) is given to the candidate.
selectMinePosition(availablePositions, placedMines, width, height) ==
  IF availablePositions = {} THEN {}
  ELSE IF placedMines = {} THEN availablePositions
  ELSE LET score == [p \in availablePositions |->
                       calculatePositionScore(p, placedMines, width, height)]
           slack == Cardinality(placedMines)
           alwaysAbove(p) == {q \in availablePositions \ {p} :
                                score[q] - (score[p] + slack) >= JitterMilli}
       IN {p \in availablePositions :
             Cardinality(alwaysAbove(p)) < Min(TopK, Cardinality(availablePositions))}

createBoardAvailable(width, height, safeZone) ==
  {p \in Positions(width, height) :
     IF safeZone # NoSafeZone
       THEN ~(Abs(p.row - safeZone.row) <= 1 /\ Abs(p.col - safeZone.col) <= 1)
       ELSE TRUE}

\* the sets of placed mines after i more rounds of the placement loop (lines 57-71)
RECURSIVE placedMinesAfter(_, _, _, _, _)
placedMinesAfter(sets, available, i, width, height) ==
  IF i = 0 THEN sets
  ELSE placedMinesAfter(
         UNION {LET sel == selectMinePosition(available \ placed, placed, width, height)
                IN IF sel = {} THEN {placed} ELSE {placed \cup {p} : p \in sel}
                : placed \in sets},
         available, i - 1, width, height)

MinePlacer_countAdjacentMines(b, position) ==
  Len(SelectSeq(getAdjacentPositions(b, position), LAMBDA q : b.cells[q].hasMine))

MinePlacer_calculateAdjacentMines(b) ==
  [b EXCEPT !.cells = [p \in DOMAIN b.cells |->
     IF ~b.cells[p].hasMine
       THEN [b.cells[p] EXCEPT !.adjacentMines = MinePlacer_countAdjacentMines(b, p)]
       ELSE b.cells[p]]]

\* the boards one anti-clustered attempt can produce
createBoardWithMines(width, height, mineCount, safeZone) ==
  LET empty == createEmptyBoard(width, height)
      availablePositions == createBoardAvailable(width, height, safeZone)
      minesToPlace == Min(mineCount, Cardinality(availablePositions))
  IN {MinePlacer_calculateAdjacentMines(
        [empty EXCEPT !.mineCount = Cardinality(placedMines),
                      !.cells = [p \in DOMAIN empty.cells |->
                         IF p \in placedMines THEN [empty.cells[p] EXCEPT !.hasMine = TRUE]
                         ELSE empty.cells[p]]])
      : placedMines \in placedMinesAfter({{}}, availablePositions, minesToPlace, width, height)}

\* the for loop over safeMoves (lines 169-175)
RECURSIVE revealSafeMoves(_, _, _)
revealSafeMoves(tb, safeMoves, i) ==
  IF i > Len(safeMoves) THEN tb
  ELSE IF tb.cells[safeMoves[i]].state = "hidden"
    THEN revealSafeMoves([tb EXCEPT !.cells[safeMoves[i]].state = "revealed",
                                    !.revealedCount = tb.revealedCount + 1],
                         safeMoves, i + 1)
    ELSE revealSafeMoves(tb, safeMoves, i + 1)

\* mutant: the full-clearance test inside the loop is missing
RECURSIVE solveLoop_noClearanceTest(_, _, _)
solveLoop_noClearanceTest(tb, progress, iterations) ==
  LET nonMines == tb.width * tb.height - tb.mineCount
  IN IF progress /\ iterations < maxIterations
       THEN LET after == revealSafeMoves(tb, findSafeMoves(tb), 1)
            IN solveLoop_noClearanceTest(after, after.revealedCount # tb.revealedCount,
                                         iterations + 1)
       ELSE IF nonMines > 0 THEN 10 * tb.revealedCount > SolveThresholdTenths * nonMines
            ELSE nonMines = 0 /\ tb.revealedCount > 0

\* the while loop of validateSolvability and the final percentage test
RECURSIVE solveLoop(_, _, _)
solveLoop(tb, progress, iterations) ==
  LET nonMines == tb.width * tb.height - tb.mineCount
  IN IF progress /\ iterations < maxIterations
       THEN LET safeMoves == findSafeMoves(tb)
                after == revealSafeMoves(tb, safeMoves, 1)
            IN IF after.revealedCount >= nonMines THEN TRUE
               ELSE solveLoop(after, after.revealedCount # tb.revealedCount, iterations + 1)
       ELSE \* revealedCount / nonMines > 0.7; a NaN or a negative quotient is not above 0.7
            IF nonMines > 0 THEN 10 * tb.revealedCount > SolveThresholdTenths * nonMines
            ELSE nonMines = 0 /\ tb.revealedCount > 0

validateSolvability(b) == solveLoop(b, TRUE, 0)

optimizeMineDistribution(b) == b

\* ---- utils/boardUtils.ts, utils/storage.ts ----
\* JSON values: what JSON.stringify writes and JSON.parse returns
JNull == [type |-> "null"]

JNumber(n) == [type |-> "number", number |-> n]

JString(x) == [type |-> "string", string |-> x]

JBoolean(x) == [type |-> "boolean", boolean |-> x]

JArray(items) == [type |-> "array", items |-> items]

JObject(fields) == [type |-> "object", fields |-> fields]

\* the value of a property that is not there
Undefined == [type |-> "undefined"]

\* typeof v
typeOf(v) == IF v.type \in {"null", "array", "object"} THEN "object" ELSE v.type

\* v in a boolean position (the && chains of isValidBoardStructure and isValidCell)
truthy(v) ==
  CASE v.type \in {"null", "undefined"} -> FALSE
    [] v.type = "number" -> v.number # 0
    [] v.type = "string" -> v.string # ""
    [] v.type = "boolean" -> v.boolean
    [] OTHER -> TRUE

\* v[name] for a value that is not null or undefined
prop(v, name) ==
  IF v.type = "object" /\ name \in DOMAIN v.fields THEN v.fields[name] ELSE Undefined

\* what localStorage.getItem returns: null (NoItem) or a string, and a string is
\* empty, the text of one JSON value, or text JSON.parse throws on
NoItem == [text |-> "null"]

EmptyText == [text |-> "empty"]

UnparsableText == [text |-> "unparsable"]

JsonText(v) == [text |-> "json", value |-> v]

\* the null deserializeBoard and loadGameState return
NoBoard == [gameStatus |-> "null"]

\* JSON.stringify of a cell
jsonOfCell(cell) ==
  JObject([state |-> JString(cell.state),
           hasMine |-> JBoolean(cell.hasMine),
           adjacentMines |-> JNumber(cell.adjacentMines),
           position |-> JObject([row |-> JNumber(cell.position.row),
                                 col |-> JNumber(cell.position.col)])])

\* mutant: the rows are written last column first
jsonOfBoard_rowsReversed(b) ==
  JObject([cells |-> JArray([r \in 1..b.height |->
                       JArray([c \in 1..b.width |->
                         jsonOfCell(b.cells[[row |-> r - 1, col |-> b.width - c]])])]),
           width |-> JNumber(b.width),
           height |-> JNumber(b.height),
           mineCount |-> JNumber(b.mineCount),
           revealedCount |-> JNumber(b.revealedCount),
           flaggedCount |-> JNumber(b.flaggedCount),
           gameStatus |-> JString(b.gameStatus),
           firstClick |-> JBoolean(b.firstClick)])

\* JSON.stringify of a board: cells is an array of height rows of width cells
jsonOfBoard(b) ==
  JObject([cells |-> JArray([r \in 1..b.height |->
                       JArray([c \in 1..b.width |->
                         jsonOfCell(b.cells[[row |-> r - 1, col |-> c - 1]])])]),
           width |-> JNumber(b.width),
           height |-> JNumber(b.height),
           mineCount |-> JNumber(b.mineCount),
           revealedCount |-> JNumber(b.revealedCount),
           flaggedCount |-> JNumber(b.flaggedCount),
           gameStatus |-> JString(b.gameStatus),
           firstClick |-> JBoolean(b.firstClick)])

\* serializeBoard (lines 6-8)
serializeBoard(b) == JsonText(jsonOfBoard(b))

\* mutant: any string is taken for the state of a cell
isValidCell_anyState(cell) ==
  /\ truthy(cell)
  /\ prop(cell, "state").type = "string"
  /\ typeOf(prop(cell, "hasMine")) = "boolean"
  /\ typeOf(prop(cell, "adjacentMines")) = "number"
  /\ truthy(prop(cell, "position"))
  /\ typeOf(prop(prop(cell, "position"), "row")) = "number"
  /\ typeOf(prop(prop(cell, "position"), "col")) = "number"

\* isValidCell (lines 55-65)
isValidCell(cell) ==
  /\ truthy(cell)
  /\ LET state == prop(cell, "state")
     IN state.type = "string"
        /\ state.string \in {"hidden", "revealed", "flagged", "mine", "exploded"}
  /\ typeOf(prop(cell, "hasMine")) = "boolean"
  /\ typeOf(prop(cell, "adjacentMines")) = "number"
  /\ LET position == prop(cell, "position")
     IN /\ truthy(position)
        /\ typeOf(prop(position, "row")) = "number"
        /\ typeOf(prop(position, "col")) = "number"

\* isValidBoardStructure (lines 32-50), as the truth value deserializeBoard tests
isValidBoardStructure(v) ==
  /\ truthy(v)
  /\ typeOf(prop(v, "width")) = "number"
  /\ typeOf(prop(v, "height")) = "number"
  /\ typeOf(prop(v, "mineCount")) = "number"
  /\ typeOf(prop(v, "revealedCount")) = "number"
  /\ typeOf(prop(v, "flaggedCount")) = "number"
  /\ typeOf(prop(v, "firstClick")) = "boolean"
  /\ LET gameStatus == prop(v, "gameStatus")
     IN gameStatus.type = "string" /\ gameStatus.string \in {"playing", "won", "lost"}
  /\ LET cells == prop(v, "cells")
         width == prop(v, "width").number
     IN /\ cells.type = "array"
        /\ Len(cells.items) = prop(v, "height").number
        /\ \A r \in 1..Len(cells.items) :
             LET row == cells.items[r]
             IN /\ row.type = "array"
                /\ Len(row.items) = width
                /\ \A c \in 1..Len(row.items) : isValidCell(row.items[c])

\* the parsed object read as a BoardState
boardOfJson(v) ==
  LET f == v.fields
      rows == f.cells.items
  IN [cells |-> [p \in Positions(f.width.number, f.height.number) |->
                   LET cell == rows[p.row + 1].items[p.col + 1].fields
                   IN [state |-> cell.state.string,
                       hasMine |-> cell.hasMine.boolean,
                       adjacentMines |-> cell.adjacentMines.number,
                       position |-> [row |-> cell.position.fields.row.number,
                                     col |-> cell.position.fields.col.number]]],
      width |-> f.width.number,
      height |-> f.height.number,
      mineCount |-> f.mineCount.number,
      revealedCount |-> f.revealedCount.number,
      flaggedCount |-> f.flaggedCount.number,
      gameStatus |-> f.gameStatus.string,
      firstClick |-> f.firstClick.boolean]

\* deserializeBoard (lines 13-27): JSON.parse throws on text that is not JSON and
\* the catch returns null
deserializeBoard(data) ==
  IF data.text # "json" THEN NoBoard
  ELSE IF ~isValidBoardStructure(data.value) THEN NoBoard
  ELSE boardOfJson(data.value)

\* loadGameState (storage.ts lines 28-38) on the stored item
loadGameState(item) ==
  IF item.text \in {"null", "empty"} THEN NoBoard ELSE deserializeBoard(item)

\* the initial board of GameBoard (GameBoard.tsx lines 16-26)
initialBoard(item, width, height, mineCount) ==
  LET savedBoard == loadGameState(item)
  IN IF savedBoard # NoBoard
        /\ savedBoard.width = width
        /\ savedBoard.height = height
        /\ savedBoard.mineCount = mineCount
       THEN savedBoard
       ELSE createEmptyBoard(width, height)

\* mutant: a finished game is left in storage
autoSaveEffect_noClear(b, item) ==
  IF ~b.firstClick THEN serializeBoard(b) ELSE item

\* the stored item after the auto-save effect ran for board b (GameBoard.tsx
\* lines 34-41)
autoSaveEffect(b, item) ==
  IF b.gameStatus = "playing" /\ ~b.firstClick THEN serializeBoard(b)
  ELSE IF b.gameStatus # "playing" THEN NoItem
  ELSE item

\* saveGameResult keeps the last HistoryLimit games (storage.ts line 140)
HistoryLimit == 100

\* JSON.stringify of {...gameResult, timestamp}
jsonOfHistoryEntry(gameResult, timestamp) ==
  JObject([won |-> JBoolean(gameResult.won),
           timeElapsed |-> JNumber(gameResult.timeElapsed),
           hintsUsed |-> JNumber(gameResult.hintsUsed),
           timestamp |-> JNumber(timestamp)])

\* loadGameHistory (lines 153-163): [] for a missing, empty or unparsable item,
\* else whatever JSON.parse returns
loadGameHistory(item) ==
  IF item.text \in {"null", "empty", "unparsable"} THEN JArray(<<>>)
  ELSE item.value

\* history.slice(-HistoryLimit)
sliceLast(history) ==
  IF Len(history) > HistoryLimit
    THEN SubSeq(history, Len(history) - HistoryLimit + 1, Len(history))
    ELSE history

\* mutant: history.slice(0, HistoryLimit)
saveGameResult_keepsOldest(item, gameResult, now) ==
  LET history == loadGameHistory(item)
  IN IF history.type # "array" THEN [item |-> item, saved |-> FALSE]
     ELSE LET pushed == Append(history.items, jsonOfHistoryEntry(gameResult, now))
          IN [item |-> JsonText(JArray(SubSeq(pushed, 1, Min(Len(pushed), HistoryLimit)))),
              saved |-> TRUE]

\* saveGameResult (lines 131-148): the stored item after the call and the value
\* returned; now is Date.now().  push on a value that is not an array throws,
\* the catch returns false and nothing is written
saveGameResult(item, gameResult, now) ==
  LET history == loadGameHistory(item)
  IN IF history.type # "array" THEN [item |-> item, saved |-> FALSE]
     ELSE LET pushed == Append(history.items, jsonOfHistoryEntry(gameResult, now))
          IN [item |-> JsonText(JArray(sliceLast(pushed))), saved |-> TRUE]

\* ---- ai/difficultyAdapter.ts ----
DifficultyLevels == {"beginner", "intermediate", "expert"}

difficultySettings ==
  [beginner |-> [baseWidth |-> 9, baseHeight |-> 9, baseMines |-> 10, maxMines |-> 15],
   intermediate |-> [baseWidth |-> 16, baseHeight |-> 16, baseMines |-> 40, maxMines |-> 60],
   expert |-> [baseWidth |-> 30, baseHeight |-> 16, baseMines |-> 99, maxMines |-> 150]]

\* every game of the explored runs lasts the same time, so the average stays a
\* whole number
TimeElapsed == 30

getDefaultPlayerStats ==
  [gamesPlayed |-> 0, gamesWon |-> 0, averageTime |-> 0, hintsUsed |-> 0,
   currentStreak |-> 0, preferredDifficulty |-> "beginner"]

\* the game results adjustDifficulty can be given
GameResults ==
  [won : BOOLEAN, timeElapsed : {TimeElapsed}, hintsUsed : {0, MaxHintsPerGame}]

\* confidence in tenths
analyzeRecentPerformance(playerStats) ==
  IF playerStats.currentStreak > 2 THEN [trend |-> "improving", confidence |-> 8]
  ELSE IF playerStats.currentStreak < -2 THEN [trend |-> "declining", confidence |-> 8]
  ELSE [trend |-> "stable", confidence |-> 6]

\* the adjustment summed in lines 27-58; winRate and avgHintsPerGame are
\* quotients of small integers and are compared by cross-multiplication
mineCountAdjustment(playerStats) ==
  LET played == playerStats.gamesPlayed
      won == playerStats.gamesWon
      recentPerformance == analyzeRecentPerformance(playerStats)
      winRateTerm == IF 10 * won > 8 * played THEN 3
                     ELSE IF 10 * won > 6 * played THEN 1
                     ELSE IF 10 * won < 3 * played THEN -3
                     ELSE IF 10 * won < 5 * played THEN -1
                     ELSE 0
      recentTerm == IF recentPerformance.trend = "improving" /\ recentPerformance.confidence > 7
                      THEN 1
                    ELSE IF recentPerformance.trend = "declining"
                            /\ recentPerformance.confidence > 7 THEN -1
                    ELSE 0
      streakTerm == IF playerStats.currentStreak >= 5 THEN 2
                    ELSE IF playerStats.currentStreak <= -3 THEN -2
                    ELSE 0
      hintTerm == IF playerStats.hintsUsed > 3 * played THEN -1 ELSE 0
  IN winRateTerm + recentTerm + streakTerm + hintTerm

\* mutant: the result is not held at or above 70% of the base
calculateMineCount_noLowerBound(playerStats) ==
  LET settings == difficultySettings[playerStats.preferredDifficulty]
  IN IF playerStats.gamesPlayed < 3 THEN settings.baseMines
     ELSE Min(settings.maxMines, settings.baseMines + mineCountAdjustment(playerStats))

\* calculateMineCount (lines 14-70)
calculateMineCount(playerStats) ==
  LET settings == difficultySettings[playerStats.preferredDifficulty]
      floor70 == (7 * settings.baseMines) \div 10
      capped == Min(settings.maxMines, settings.baseMines + mineCountAdjustment(playerStats))
  IN IF playerStats.gamesPlayed < 3 THEN settings.baseMines
     ELSE IF floor70 > capped THEN floor70 ELSE capped

\* mutant: a loss resets the streak to 0
updatePerformanceMetrics_lossResets(stats, result) ==
  LET newGamesPlayed == stats.gamesPlayed + 1
  IN [stats EXCEPT
        !.gamesPlayed = newGamesPlayed,
        !.gamesWon = stats.gamesWon + (IF result.won THEN 1 ELSE 0),
        !.averageTime = IF stats.gamesPlayed > 0
                          THEN (stats.averageTime * stats.gamesPlayed + result.timeElapsed)
                               \div newGamesPlayed
                          ELSE result.timeElapsed,
        !.hintsUsed = stats.hintsUsed + result.hintsUsed,
        !.currentStreak = IF result.won THEN stats.currentStreak + 1 ELSE 0]

\* updatePerformanceMetrics (lines 131-152)
updatePerformanceMetrics(stats, result) ==
  LET newGamesPlayed == stats.gamesPlayed + 1
  IN [stats EXCEPT
        !.gamesPlayed = newGamesPlayed,
        !.gamesWon = stats.gamesWon + (IF result.won THEN 1 ELSE 0),
        !.averageTime = IF stats.gamesPlayed > 0
                          THEN (stats.averageTime * stats.gamesPlayed + result.timeElapsed)
                               \div newGamesPlayed
                          ELSE result.timeElapsed,
        !.hintsUsed = stats.hintsUsed + result.hintsUsed,
        !.currentStreak =
           IF result.won
             THEN (IF stats.currentStreak > 0 THEN stats.currentStreak ELSE 0) + 1
             ELSE (IF stats.currentStreak < 0 THEN stats.currentStreak ELSE 0) - 1]

\* calculateNewAverageTime of utils/storage.ts (lines 121-126)
calculateNewAverageTime(stats, newTime) ==
  IF stats.gamesPlayed = 0 THEN newTime
  ELSE (stats.averageTime * stats.gamesPlayed + newTime) \div (stats.gamesPlayed + 1)

\* updatePlayerStats of utils/storage.ts (lines 102-116) on the loaded statistics:
\* the statistics it saves and returns
updatePlayerStats(currentStats, gameResult) ==
  [gamesPlayed |-> currentStats.gamesPlayed + 1,
   gamesWon |-> currentStats.gamesWon + (IF gameResult.won THEN 1 ELSE 0),
   hintsUsed |-> currentStats.hintsUsed + gameResult.hintsUsed,
   currentStreak |-> IF gameResult.won THEN currentStats.currentStreak + 1 ELSE 0,
   preferredDifficulty |-> currentStats.preferredDifficulty,
   averageTime |-> calculateNewAverageTime(currentStats, gameResult.timeElapsed)]

\* mutant: only pos and its four orthogonal neighbours are pushed
clusterNeighbours_orthogonal(b, pos) ==
  {q \in Positions(b.width, b.height) :
     Abs(q.row - pos.row) + Abs(q.col - pos.col) <= 1}

\* the positions getClusterSize pushes for pos (lines 198-208), pos included
clusterNeighbours(b, pos) ==
  {q \in Positions(b.width, b.height) :
     Abs(q.row - pos.row) <= 1 /\ Abs(q.col - pos.col) <= 1}

\* getClusterSize (lines 183-212): the stack is kept as a set, the order of the
\* pops does not change the cluster found
RECURSIVE getClusterSize(_, _, _, _)
getClusterSize(b, stack, visited, size) ==
  IF stack = {} THEN [size |-> size, visited |-> visited]
  ELSE LET pos == CHOOSE q \in stack : TRUE
       IN IF pos \in visited \/ ~b.cells[pos].hasMine
            THEN getClusterSize(b, stack \ {pos}, visited, size)
            ELSE getClusterSize(b, (stack \ {pos}) \cup clusterNeighbours(b, pos),
                                visited \cup {pos}, size + 1)

\* the row-major scan of hasExcessiveClustering (lines 161-173)
RECURSIVE countClusters(_, _, _, _)
countClusters(b, i, visited, clusterCount) ==
  LET order == RowMajor(b.width, b.height)
  IN IF i > Len(order) THEN clusterCount
     ELSE IF b.cells[order[i]].hasMine /\ order[i] \notin visited
       THEN LET cluster == getClusterSize(b, {order[i]}, visited, 0)
            IN countClusters(b, i + 1, cluster.visited,
                             IF cluster.size >= 4 THEN clusterCount + 1 ELSE clusterCount)
       ELSE countClusters(b, i + 1, visited, clusterCount)

hasExcessiveClustering(b) ==
  countClusters(b, 1, {}, 0) > b.mineCount \div 8

countNumberedCells(b) ==
  Cardinality({p \in Positions(b.width, b.height) :
                 ~b.cells[p].hasMine /\ b.cells[p].adjacentMines > 0})

\* validateBoardBalance (lines 88-107); mineRatio is compared by
\* cross-multiplication
validateBoardBalance(b) ==
  LET totalCells == b.width * b.height
  IN IF 10 * b.mineCount < totalCells \/ 10 * b.mineCount > 4 * totalCells THEN FALSE
     ELSE IF hasExcessiveClustering(b) THEN FALSE
     ELSE countNumberedCells(b) >= (3 * totalCells) \div 10

\* ---- the caller: a program that generates a board and then plays on it ----
\* no generateBoard call on record
NoGenArgs == [mineCount |-> 0, safeZone |-> NoSafeZone]

\* the GameBoard component state next to the board: the mineCount prop, the
\* hintedPosition (NoSafeZone for null) and hintsUsed, and the stored item
\* minesweeper_current_game; NoGame when no component is mounted
NoGame ==
  [mineCount |-> 0, hintedPosition |-> NoSafeZone, hintsUsed |-> 0, storage |-> NoItem]

\* the difficulty adapter: the stored player statistics, the results given to
\* adjustDifficulty so far (won or not), the last mine count calculateMineCount
\* returned (-1 before the first call) and the last verdict of
\* validateBoardBalance; next to it the stored item minesweeper_game_history
\* and the results given to saveGameResult so far, each with the time of its
\* call; and the statistics as updatePlayerStats of utils/storage.ts keeps them
\* when it is given the same results; NoAdapter when none of this is in use
NoAdapter ==
  [playerStats |-> getDefaultPlayerStats, results |-> <<>>, mineCount |-> -1,
   balance |-> "unchecked", history |-> NoItem, saved |-> <<>>,
   gameStats |-> getDefaultPlayerStats]

Init ==
  /\ board = createEmptyBoard(W, H)
  /\ pc = "idle"
  /\ attempts = 0
  /\ genArgs = NoGenArgs
  /\ path = "none"
  /\ ops = 0
  /\ game = NoGame
  /\ adapter = NoAdapter

\* generateBoard is entered (lines 11-13).  It reads only its arguments, so it is
\* explored from the freshly created board.
GenerateBoardStart ==
  /\ pc = "idle" /\ path = "none" /\ ops = 0
  /\ \E m \in MineCounts, sz \in SafeZones :
       genArgs' = [mineCount |-> m, safeZone |-> sz]
  /\ pc' = "generating"
  /\ attempts' = 0
  /\ UNCHANGED <<board, path, ops, game, adapter>>

\* an attempt whose board validateSolvability accepts is returned (lines 16-20)
GenerateBoardAccept ==
  /\ pc = "generating" /\ attempts < maxAttempts
  /\ \E candidate \in createBoardWithMines(W, H, genArgs.mineCount, genArgs.safeZone) :
       /\ validateSolvability(candidate)
       /\ board' = optimizeMineDistribution(candidate)
  /\ pc' = "idle"
  /\ path' = "anticlustered"
  /\ UNCHANGED <<attempts, genArgs, ops, game, adapter>>

\* an attempt whose board is rejected (lines 16-22)
GenerateBoardReject ==
  /\ pc = "generating" /\ attempts < maxAttempts
  /\ \E candidate \in createBoardWithMines(W, H, genArgs.mineCount, genArgs.safeZone) :
       ~validateSolvability(candidate)
  /\ attempts' = attempts + 1
  /\ UNCHANGED <<board, pc, genArgs, path, ops, game, adapter>>

\* mutant: the fallback is taken one attempt early
GenerateBoardFallback_beforeLastAttempt ==
  /\ pc = "generating" /\ attempts >= maxAttempts - 1
  /\ \E shuffledPrefix \in placeMinesChoices(createEmptyBoard(W, H),
                                             genArgs.mineCount, genArgs.safeZone) :
       board' = placeMines(createEmptyBoard(W, H), genArgs.mineCount, genArgs.safeZone,
                           shuffledPrefix)
  /\ pc' = "idle"
  /\ path' = "fallback"
  /\ UNCHANGED <<attempts, genArgs, ops, game, adapter>>

\* the fallback after maxAttempts rejected attempts (lines 25-27)
GenerateBoardFallback ==
  /\ pc = "generating" /\ attempts >= maxAttempts
  /\ \E shuffledPrefix \in placeMinesChoices(createEmptyBoard(W, H),
                                             genArgs.mineCount, genArgs.safeZone) :
       board' = placeMines(createEmptyBoard(W, H), genArgs.mineCount, genArgs.safeZone,
                           shuffledPrefix)
  /\ pc' = "idle"
  /\ path' = "fallback"
  /\ UNCHANGED <<attempts, genArgs, ops, game, adapter>>

\* genArgs records the generateBoard call up to and including the first call made
\* on its board (the first click, GameBoard.tsx lines 64-72); later calls have no
\* relation to it and the record is dropped.
\* revealCell(board, position), lines 135-210
RevealCell ==
  /\ pc = "idle" /\ ops < MaxOps
  /\ \E position \in CallPositions : board' = revealCell(board, position)
  /\ ops' = ops + 1
  /\ genArgs' = IF ops = 0 THEN genArgs ELSE NoGenArgs
  /\ UNCHANGED <<pc, attempts, path, game, adapter>>

\* toggleFlag(board, position), lines 215-242
ToggleFlag ==
  /\ pc = "idle" /\ ops < MaxOps
  /\ \E position \in CallPositions : board' = toggleFlag(board, position)
  /\ ops' = ops + 1
  /\ genArgs' = IF ops = 0 THEN genArgs ELSE NoGenArgs
  /\ UNCHANGED <<pc, attempts, path, game, adapter>>

Next ==
  \/ GenerateBoardStart
  \/ GenerateBoardAccept
  \/ GenerateBoardReject
  \/ GenerateBoardFallback
  \/ RevealCell
  \/ ToggleFlag

Spec == Init /\ [][Next]_vars

TypeOK ==
  /\ pc \in {"idle", "generating"}
  /\ attempts \in 0..maxAttempts
  /\ ops \in 0..(MaxOps + MaxHandlerCalls)
  /\ board.gameStatus \in {"playing", "won", "lost"}

\* ---- components/Board/GameBoard.tsx ----
\* the boards generateBoard(width, height, mineCount, safeZone) can return
\* (minePlacer.ts lines 11-28): an accepted candidate of some attempt, or, when a
\* candidate can be rejected fifty times, a fallback placement
generateBoard(width, height, mineCount, safeZone) ==
  LET candidates == createBoardWithMines(width, height, mineCount, safeZone)
      empty == createEmptyBoard(width, height)
  IN {optimizeMineDistribution(c) : c \in {d \in candidates : validateSolvability(d)}}
     \cup
     (IF \E c \in candidates : ~validateSolvability(c)
        THEN {placeMines(empty, mineCount, safeZone, shuffledPrefix) :
                shuffledPrefix \in placeMinesChoices(empty, mineCount, safeZone)}
        ELSE {})

\* the mineCount prop the component is mounted with
GameMineCounts == MineCounts

\* mutant: mines are placed again on every click
handleCellClickBoards_placesAgain(b, mineCount, position) ==
  IF b.gameStatus # "playing" THEN {b}
  ELSE {revealCell(newBoard, position) :
          newBoard \in generateBoard(b.width, b.height, mineCount, position)}

\* mutant: a click is handled whatever the status of the game
handleCellClickBoards_noStatusGuard(b, mineCount, position) ==
  {revealCell(newBoard, position) :
     newBoard \in IF ~b.firstClick THEN {b}
                  ELSE generateBoard(b.width, b.height, mineCount, position)}

\* mutant: at the first click the mines are placed on the board in the state
handleCellClickBoards_minesOnCurrentBoard(b, mineCount, position) ==
  IF b.gameStatus # "playing" THEN {b}
  ELSE {revealCell(newBoard, position) :
          newBoard \in IF ~b.firstClick THEN {b}
                       ELSE {placeMines(b, mineCount, position, shuffledPrefix) :
                               shuffledPrefix \in placeMinesChoices(b, mineCount, position)}}

\* generateBoard reads nothing but its arguments: the boards
\* minePlacer.generateBoard(board.width, board.height, mineCount, position) can
\* return for a board of the size the component is mounted with, per mineCount
\* prop and position
generateBoardResults ==
  [mineCount \in GameMineCounts |->
     [position \in Positions(W, H) |-> generateBoard(W, H, mineCount, position)]]

\* the boards handleCellClick can pass to setBoard (lines 59-71); the board itself
\* when the handler returns at line 59
handleCellClickBoards(b, mineCount, position) ==
  IF b.gameStatus # "playing" THEN {b}
  ELSE {revealCell(newBoard, position) :
          newBoard \in IF ~b.firstClick THEN {b}
                       ELSE IF b.width = W /\ b.height = H /\ mineCount \in GameMineCounts
                         THEN generateBoardResults[mineCount][position]
                       ELSE generateBoard(b.width, b.height, mineCount, position)}

\* GameBoard is mounted with nothing in storage (lines 16-32)
GameInit ==
  /\ board = createEmptyBoard(W, H)
  /\ game \in {[NoGame EXCEPT !.mineCount = m] : m \in GameMineCounts}
  /\ pc = "idle"
  /\ attempts = 0
  /\ genArgs = NoGenArgs
  /\ path = "none"
  /\ ops = 0
  /\ adapter = NoAdapter

\* handleCellClick (lines 58-77); ops counts the handler calls
HandleCellClick ==
  /\ ops < MaxHandlerCalls
  /\ \E position \in Positions(W, H) :
       board' \in handleCellClickBoards(board, game.mineCount, position)
  /\ game' = IF board.gameStatus # "playing" THEN game
             ELSE [game EXCEPT !.hintedPosition = NoSafeZone,
                               !.storage = autoSaveEffect(board', game.storage)]
  /\ ops' = ops + 1
  /\ UNCHANGED <<pc, attempts, genArgs, path, adapter>>

\* handleCellRightClick (lines 79-84)
HandleCellRightClick ==
  /\ ops < MaxHandlerCalls
  /\ \E position \in Positions(W, H) :
       board' = IF board.gameStatus # "playing" THEN board ELSE toggleFlag(board, position)
  /\ game' = [game EXCEPT !.storage = autoSaveEffect(board', game.storage)]
  /\ ops' = ops + 1
  /\ UNCHANGED <<pc, attempts, genArgs, path, adapter>>

\* newGame (lines 86-93)
NewGame ==
  /\ ops < MaxHandlerCalls
  /\ board' = createEmptyBoard(W, H)
  /\ game' = [game EXCEPT !.hintedPosition = NoSafeZone, !.hintsUsed = 0,
                          !.storage = autoSaveEffect(board', NoItem)]
  /\ ops' = ops + 1
  /\ UNCHANGED <<pc, attempts, genArgs, path, adapter>>

\* requestHint (lines 95-106)
RequestHint ==
  /\ ops < MaxHandlerCalls
  /\ LET hint == analyzeBoard(board)
     IN game' = IF board.gameStatus # "playing" \/ board.firstClick \/ hint = NoHint
                  THEN game
                  ELSE [game EXCEPT !.hintedPosition = hint.suggestedMove,
                                    !.hintsUsed = game.hintsUsed + 1]
  /\ ops' = ops + 1
  /\ UNCHANGED <<board, pc, attempts, genArgs, path, adapter>>

\* the state of a GameBoard mounted with the given stored item: the initial
\* board, the initial hint state, and the item after the first run of the
\* auto-save effect (lines 16-41)
mountGameBoard(item, mineCount) ==
  LET b == initialBoard(item, W, H, mineCount)
  IN [board |-> b,
      game |-> [mineCount |-> mineCount, hintedPosition |-> NoSafeZone, hintsUsed |-> 0,
                storage |-> autoSaveEffect(b, item)]]

\* Game.handleNewGame (Game.tsx lines 23-30): the key of GameBoard changes, the
\* component is unmounted and mounted again with the same props
HandleNewGame ==
  /\ ops < MaxHandlerCalls
  /\ LET mounted == mountGameBoard(game.storage, game.mineCount)
     IN board' = mounted.board /\ game' = mounted.game
  /\ ops' = ops + 1
  /\ UNCHANGED <<pc, attempts, genArgs, path, adapter>>

\* the page is loaded again at the same difficulty: Game and GameBoard are
\* mounted anew, localStorage is kept
Reload ==
  /\ ops < MaxHandlerCalls
  /\ LET mounted == mountGameBoard(game.storage, game.mineCount)
     IN board' = mounted.board /\ game' = mounted.game
  /\ ops' = ops + 1
  /\ UNCHANGED <<pc, attempts, genArgs, path, adapter>>

GameNext ==
  \/ HandleCellClick
  \/ HandleCellRightClick
  \/ NewGame
  \/ RequestHint
  \/ HandleNewGame
  \/ Reload

GameSpec == GameInit /\ [][GameNext]_vars

\* ---- GameBoard mounted on whatever the stored item holds ----
\* a game in progress: one mine, the cell next to it revealed
sampleBoard ==
  revealCell(placeMines(createEmptyBoard(W, H), 1, NoSafeZone, {[row |-> 0, col |-> 0]}),
             [row |-> 0, col |-> 1])

\* the object without its property f
withoutField(obj, f) == JObject([g \in DOMAIN obj.fields \ {f} |-> obj.fields[g]])

\* the object with property f set to x
withField(obj, f, x) ==
  JObject([g \in DOMAIN obj.fields \cup {f} |-> IF g = f THEN x ELSE obj.fields[g]])

\* the board object with the cell in row r, column c (from 1) replaced
withCell(v, r, c, cell) ==
  LET rows == v.fields.cells.items
  IN withField(v, "cells",
               JArray([rows EXCEPT ![r] = JArray([rows[r].items EXCEPT ![c] = cell])]))

\* stored values that are no snapshot: text that is not JSON, JSON values that
\* are no board object, and the snapshot of sampleBoard with a required field
\* missing, with a gameStatus or a cell state outside the enumeration, or with
\* a cells array of another shape than height rows of width cells
MalformedValues ==
  LET v == jsonOfBoard(sampleBoard)
      rows == v.fields.cells.items
      corners == {<<1, 1>>, <<H, W>>}
      cellAt(rc) == rows[rc[1]].items[rc[2]]
  IN {UnparsableText, EmptyText}
     \cup {JsonText(x) : x \in {JNull, JNumber(0), JNumber(7), JString("board"),
                                JBoolean(TRUE), JArray(<<>>), JObject(<<>>)}}
     \cup {JsonText(withoutField(v, f)) : f \in DOMAIN v.fields}
     \cup {JsonText(withCell(v, rc[1], rc[2], withoutField(cellAt(rc), f))) :
             rc \in corners, f \in {"state", "hasMine", "adjacentMines", "position"}}
     \cup {JsonText(withCell(v, rc[1], rc[2],
                             withField(cellAt(rc), "position",
                                       withoutField(cellAt(rc).fields.position, f)))) :
             rc \in corners, f \in {"row", "col"}}
     \cup {JsonText(withCell(v, rc[1], rc[2], JNull)) : rc \in corners}
     \cup {JsonText(withField(v, "gameStatus", x)) :
             x \in {JString("paused"), JString(""), JNumber(1), JNull}}
     \cup {JsonText(withCell(v, rc[1], rc[2], withField(cellAt(rc), "state", x))) :
             rc \in corners, x \in {JString("open"), JNull}}
     \cup {JsonText(withField(v, "cells", x)) :
             x \in {JNull, JArray(<<>>), JArray(SubSeq(rows, 1, H - 1)),
                    JArray(Append(rows, rows[1])),
                    JArray([rows EXCEPT ![1] = JArray(SubSeq(rows[1].items, 1, W - 1))]),
                    JArray([rows EXCEPT ![H] = JArray(Append(rows[H].items, rows[H].items[1]))]),
                    JArray([rows EXCEPT ![H] = JNull])}}

\* what the stored item can hold when the page is loaded: nothing, a snapshot
\* of a game in progress or of a finished game, or a malformed value
StoredValues ==
  {NoItem, serializeBoard(sampleBoard),
   serializeBoard(toggleFlag(sampleBoard, [row |-> 0, col |-> 0])),
   serializeBoard(revealCell(sampleBoard, [row |-> 0, col |-> 0]))}
  \cup MalformedValues

StorageInit ==
  /\ \E item \in StoredValues, m \in GameMineCounts :
       LET mounted == mountGameBoard(item, m)
       IN board = mounted.board /\ game = mounted.game
  /\ pc = "idle"
  /\ attempts = 0
  /\ genArgs = NoGenArgs
  /\ path = "none"
  /\ ops = 0
  /\ adapter = NoAdapter

StorageNext ==
  \/ NewGame
  \/ HandleNewGame
  \/ Reload

StorageSpec == StorageInit /\ [][StorageNext]_vars

\* ---- the difficulty adapter on its own ----
\* the statistics start from the defaults, at any preferred difficulty
DifficultyInit ==
  /\ board = createEmptyBoard(W, H)
  /\ pc = "idle"
  /\ attempts = 0
  /\ genArgs = NoGenArgs
  /\ path = "none"
  /\ ops = 0
  /\ game = NoGame
  /\ adapter \in {[NoAdapter EXCEPT !.playerStats.preferredDifficulty = d] :
                    d \in DifficultyLevels}

\* adjustDifficulty(gameResult), lines 75-83: load, update, save
AdjustDifficulty ==
  /\ adapter.playerStats.gamesPlayed < MaxGames
  /\ \E gameResult \in GameResults :
       adapter' = [adapter EXCEPT
                     !.playerStats = updatePerformanceMetrics(adapter.playerStats, gameResult),
                     !.results = Append(adapter.results, gameResult.won)]
  /\ UNCHANGED <<board, pc, attempts, genArgs, path, ops, game>>

\* calculateMineCount(loadPlayerStats())
CalculateMineCount ==
  /\ adapter' = [adapter EXCEPT !.mineCount = calculateMineCount(adapter.playerStats)]
  /\ UNCHANGED <<board, pc, attempts, genArgs, path, ops, game>>

DifficultyNext ==
  \/ AdjustDifficulty
  \/ CalculateMineCount

DifficultySpec == DifficultyInit /\ [][DifficultyNext]_vars

\* the boards validateBoardBalance is given: every placement of up to
\* BalanceMines mines
BalanceBoards ==
  LET empty == createEmptyBoard(BalanceW, BalanceH)
  IN {placeMines(empty, Cardinality(S), NoSafeZone, S) :
        S \in {T \in SUBSET Positions(BalanceW, BalanceH) : Cardinality(T) <= BalanceMines}}

BalanceInit ==
  /\ board \in BalanceBoards
  /\ pc = "idle"
  /\ attempts = 0
  /\ genArgs = NoGenArgs
  /\ path = "none"
  /\ ops = 0
  /\ game = NoGame
  /\ adapter = NoAdapter

\* validateBoardBalance(board)
ValidateBoardBalance ==
  /\ adapter.balance = "unchecked"
  /\ adapter' = [adapter EXCEPT
                   !.balance = IF validateBoardBalance(board) THEN "balanced"
                               ELSE "unbalanced"]
  /\ UNCHANGED <<board, pc, attempts, genArgs, path, ops, game>>

BalanceNext == ValidateBoardBalance

BalanceSpec == BalanceInit /\ [][BalanceNext]_vars

\* ---- revealCell and toggleFlag on the boards a game can start from ----
\* the empty board and every board generateBoard can return
PlayBoards ==
  {createEmptyBoard(W, H)}
    \cup UNION {generateBoard(W, H, m, sz) : m \in MineCounts, sz \in SafeZones}

PlayInit ==
  /\ board \in PlayBoards
  /\ pc = "idle"
  /\ attempts = 0
  /\ genArgs = NoGenArgs
  /\ path = "none"
  /\ ops = 0
  /\ game = NoGame
  /\ adapter = NoAdapter

PlayNext ==
  \/ RevealCell
  \/ ToggleFlag

PlaySpec == PlayInit /\ [][PlayNext]_vars

\* ---- the hint engine on boards in play ----
\* the boards the play starts from: one to HintMines mines in the top row
HintBoards ==
  LET empty == createEmptyBoard(HintW, HintH)
      topRow == {p \in Positions(HintW, HintH) : p.row = 0}
  IN {placeMines(empty, Cardinality(S), NoSafeZone, S) :
        S \in {T \in SUBSET topRow : Cardinality(T) \in 1..HintMines}}

HintInit ==
  /\ board \in HintBoards
  /\ pc = "idle"
  /\ attempts = 0
  /\ genArgs = NoGenArgs
  /\ path = "none"
  /\ ops = 0
  /\ game = NoGame
  /\ adapter = NoAdapter

\* revealCell(board, position) while no hint was asked for
HintRevealCell ==
  /\ game.hintsUsed = 0 /\ ops < HintOps
  /\ \E position \in Positions(HintW, HintH) : board' = revealCell(board, position)
  /\ ops' = ops + 1
  /\ UNCHANGED <<pc, attempts, genArgs, path, game, adapter>>

\* toggleFlag(board, position) while no hint was asked for
HintToggleFlag ==
  /\ game.hintsUsed = 0 /\ ops < HintOps
  /\ \E position \in Positions(HintW, HintH) : board' = toggleFlag(board, position)
  /\ ops' = ops + 1
  /\ UNCHANGED <<pc, attempts, genArgs, path, game, adapter>>

\* hintEngine.analyzeBoard(board) is called once, its suggestion is kept
AnalyzeBoard ==
  /\ game.hintsUsed = 0
  /\ game' = [game EXCEPT !.hintedPosition = analyzeBoard(board).suggestedMove,
                          !.hintsUsed = 1]
  /\ UNCHANGED <<board, pc, attempts, genArgs, path, ops, adapter>>

HintNext ==
  \/ HintRevealCell
  \/ HintToggleFlag
  \/ AnalyzeBoard

HintSpec == HintInit /\ [][HintNext]_vars

\* ---- the two statistics routines on the same games ----
StatsInit ==
  /\ board = createEmptyBoard(W, H)
  /\ pc = "idle"
  /\ attempts = 0
  /\ genArgs = NoGenArgs
  /\ path = "none"
  /\ ops = 0
  /\ game = NoGame
  /\ adapter \in {[NoAdapter EXCEPT !.playerStats.preferredDifficulty = d,
                                    !.gameStats.preferredDifficulty = d] :
                    d \in DifficultyLevels}

\* a game ends: its result goes to updatePlayerStats (Game.handleGameComplete,
\* Game.tsx lines 32-41) and to adjustDifficulty, each on its own copy of the
\* statistics
GameComplete ==
  /\ Len(adapter.results) < MaxGames
  /\ \E gameResult \in GameResults :
       adapter' = [adapter EXCEPT
                     !.playerStats = updatePerformanceMetrics(adapter.playerStats, gameResult),
                     !.gameStats = updatePlayerStats(adapter.gameStats, gameResult),
                     !.results = Append(adapter.results, gameResult.won)]
  /\ UNCHANGED <<board, pc, attempts, genArgs, path, ops, game>>

StatsNext == GameComplete

StatsSpec == StatsInit /\ [][StatsNext]_vars

\* ---- the game history ----
\* the result of every game saved before the explored calls
PriorResult == [won |-> TRUE, timeElapsed |-> TimeElapsed, hintsUsed |-> 0]

\* the stored item and the saved results once k calls saveGameResult(PriorResult)
\* have been made, from the state h; the clock advances by one between calls
RECURSIVE historyAfter(_, _)
historyAfter(h, k) ==
  IF Len(h.saved) >= k THEN h
  ELSE historyAfter(
         [item |-> saveGameResult(h.item, PriorResult, Len(h.saved)).item,
          saved |-> Append(h.saved,
                           [gameResult |-> PriorResult, timestamp |-> Len(h.saved)])],
         k)

\* the histories the explored calls start from: no game to HistoryLimit games
\* saved before
PriorHistories ==
  {historyAfter([item |-> NoItem, saved |-> <<>>], k) : k \in 0..HistoryLimit}

HistoryInit ==
  /\ board = createEmptyBoard(W, H)
  /\ pc = "idle"
  /\ attempts = 0
  /\ genArgs = NoGenArgs
  /\ path = "none"
  /\ ops = 0
  /\ game = NoGame
  /\ adapter \in {[NoAdapter EXCEPT !.history = h.item, !.saved = h.saved] :
                    h \in PriorHistories}

\* saveGameResult(gameResult), lines 131-148
SaveGameResult ==
  /\ ops < MaxSaves
  /\ \E gameResult \in GameResults :
       LET now == Len(adapter.saved)
       IN adapter' = [adapter EXCEPT
                        !.history = saveGameResult(adapter.history, gameResult, now).item,
                        !.saved = Append(adapter.saved,
                                         [gameResult |-> gameResult, timestamp |-> now])]
  /\ ops' = ops + 1
  /\ UNCHANGED <<board, pc, attempts, genArgs, path, game>>

HistoryNext == SaveGameResult

HistorySpec == HistoryInit /\ [][HistoryNext]_vars

\* ---- copies and writes: which objects a working board shares with its input ----
\* mutant: only the board object is copied, the cell objects are shared
copyBoard_spreadOnly == [board |-> TRUE, cell |-> FALSE]

\* the copy revealCell, toggleFlag, placeMines and calculateAdjacentMines start
\* with: { ...board } is a new board object and the map over cells makes new
\* row arrays and new cell objects
copyBoard == [board |-> TRUE, cell |-> TRUE]

\* the private cloneBoard of the mine placer: the same spread and map
cloneBoard == [board |-> TRUE, cell |-> TRUE]

\* the input board b as its holder sees it after the writes that made `working`
\* from a copy of b: a write lands in b where the written object is shared
inputAfter(b, working, fresh) ==
  [f \in DOMAIN b |->
     IF f = "cells"
       THEN [p \in DOMAIN b.cells |-> IF fresh.cell THEN b.cells[p] ELSE working.cells[p]]
       ELSE IF fresh.board THEN b[f] ELSE working[f]]

\* testBoard when the while loop of validateSolvability is left (lines 153-183)
RECURSIVE solveLoopTestBoard(_, _, _)
solveLoopTestBoard(tb, progress, iterations) ==
  IF progress /\ iterations < maxIterations
    THEN LET after == revealSafeMoves(tb, findSafeMoves(tb), 1)
         IN IF after.revealedCount >= tb.width * tb.height - tb.mineCount THEN after
            ELSE solveLoopTestBoard(after, after.revealedCount # tb.revealedCount,
                                    iterations + 1)
    ELSE tb

\* ---- properties ----
\* A step with ops' = ops + 1 is one revealCell or toggleFlag call; the call and
\* its position are recognised by the board they return.

\* C1: over any sequence of revealCell and toggleFlag calls gameStatus only moves
\* from 'playing' to 'won' or 'lost'; once 'won' or 'lost' no later call changes it.
C1_StatusTerminal ==
  [][board.gameStatus # "playing" => board'.gameStatus = board.gameStatus]_vars

\* C2: on every board reached from a generateBoard result, gameStatus is 'won'
\* exactly when revealedCount = width * height - mineCount, and it is never 'won'
\* while a cell without a mine is not revealed.
C2_WinDetection ==
  (path # "none" /\ pc = "idle") =>
    /\ (board.gameStatus = "won") <=>
         (board.revealedCount = board.width * board.height - board.mineCount)
    /\ board.gameStatus = "won" =>
         \A q \in DOMAIN board.cells :
           ~board.cells[q].hasMine => board.cells[q].state = "revealed"

\* C3: revealCell on an unflagged cell with a mine yields 'lost', sets the target
\* to 'exploded' and every other mined cell to 'mine', and changes neither
\* revealedCount nor the state of any cell without a mine.
C3_LossDetection ==
  [][\A p \in DOMAIN board.cells :
       (/\ ops' = ops + 1
        /\ board.cells[p].hasMine
        /\ board.cells[p].state # "flagged"
        /\ board' = revealCell(board, p))
       => (/\ board'.gameStatus = "lost"
           /\ board'.cells[p].state = "exploded"
           /\ \A q \in DOMAIN board.cells :
                /\ (board.cells[q].hasMine /\ q # p) => board'.cells[q].state = "mine"
                /\ board.cells[q].hasMine => board'.cells[q].state \in {"mine", "exploded"}
                /\ ~board.cells[q].hasMine => board'.cells[q].state = board.cells[q].state
           /\ board'.revealedCount = board.revealedCount)]_vars

\* C4: with a safeZone inside the board, the board generateBoard returns, and every
\* board an anti-clustered attempt produces, has no mine on the safeZone position
\* or on any of its in-bounds neighbours.
C4_FirstClickSafety ==
  LET sz == genArgs.safeZone
      clear(b) == \A q \in DOMAIN b.cells :
                    (q.row - sz.row \in -1..1 /\ q.col - sz.col \in -1..1)
                      => ~b.cells[q].hasMine
  IN sz \in Positions(W, H) =>
       /\ (pc = "idle" /\ path # "none") => clear(board)
       /\ (pc = "generating" /\ attempts = 0) =>
            \A candidate \in createBoardWithMines(W, H, genArgs.mineCount, sz) :
              clear(candidate)

\* C4 witness: the fallback returned a board with mines for a safeZone on the board.
C4_Witness ==
  /\ pc = "idle" /\ path = "fallback" /\ ops = 0
  /\ genArgs.safeZone \in Positions(W, H)
  /\ \E q \in DOMAIN board.cells : board.cells[q].hasMine

\* C5 (as claimed): revealCell on a hidden zero-clue cell without a mine newly
\* reveals exactly the maximal 8-connected region of zero-clue cells without a
\* mine around it plus the numbered cells without a mine next to that region,
\* whatever is flagged or already revealed, and never reveals a mine.
C5_FloodFillWholeRegion ==
  [][\A p \in DOMAIN board.cells :
       LET cells == board.cells
           adjacent(a, c) == a # c /\ a.row - c.row \in -1..1 /\ a.col - c.col \in -1..1
           zero(q) == ~cells[q].hasMine /\ cells[q].adjacentMines = 0
           RECURSIVE grow(_)
           grow(R) == LET more == R \cup {q \in DOMAIN cells :
                                            zero(q) /\ \E e \in R : adjacent(q, e)}
                      IN IF more = R THEN R ELSE grow(more)
           region == grow({p})
           border == {q \in DOMAIN cells :
                        /\ ~cells[q].hasMine /\ cells[q].adjacentMines > 0
                        /\ \E e \in region : adjacent(q, e)}
           newly == {q \in DOMAIN cells :
                       board'.cells[q].state = "revealed" /\ cells[q].state # "revealed"}
       IN (/\ ops' = ops + 1
           /\ cells[p].state = "hidden" /\ ~cells[p].hasMine /\ cells[p].adjacentMines = 0
           /\ board'.cells[p].state = "revealed"
           /\ board' = revealCell(board, p))
          => (/\ newly = region \cup border
              /\ \A q \in DOMAIN cells : cells[q].hasMine => board'.cells[q].state # "revealed")
    ]_vars

\* C5 (amended): revealCell on a hidden zero-clue cell without a mine newly reveals
\* exactly the target and the hidden cells without a mine reached from it by
\* 8-adjacent steps through zero-clue cells that this call reveals; flagged cells
\* and cells behind them or behind already revealed cells stay as they are, and no
\* mine is revealed.
C5_FloodFillHiddenReach ==
  [][(ops' = ops + 1 /\ board'.revealedCount > board.revealedCount) =>
     \A p \in DOMAIN board.cells :
       LET cells == board.cells
           adjacent(a, c) == a # c /\ a.row - c.row \in -1..1 /\ a.col - c.col \in -1..1
           RECURSIVE grow(_)
           grow(R) == LET more == R \cup {q \in DOMAIN cells :
                                            /\ cells[q].state = "hidden" /\ ~cells[q].hasMine
                                            /\ \E e \in R : /\ cells[e].adjacentMines = 0
                                                            /\ adjacent(q, e)}
                      IN IF more = R THEN R ELSE grow(more)
           newly == {q \in DOMAIN cells :
                       board'.cells[q].state = "revealed" /\ cells[q].state # "revealed"}
       IN (/\ ops' = ops + 1
           /\ cells[p].state = "hidden" /\ ~cells[p].hasMine /\ cells[p].adjacentMines = 0
           /\ board'.cells[p].state = "revealed"
           /\ board' = revealCell(board, p))
          => (/\ newly = grow({p})
              /\ \A q \in DOMAIN cells : cells[q].hasMine => board'.cells[q].state # "revealed")
    ]_vars

\* C5 witness: a zero-clue cell was flagged, then a zero-clue neighbour of it was
\* revealed: the fill ran, reached a numbered cell and left the flagged cell.
C5_Witness ==
  /\ pc = "idle" /\ path # "none" /\ ops = 2
  /\ board.flaggedCount = 1
  /\ \E z, f, n \in DOMAIN board.cells :
       /\ board.cells[z].state = "revealed" /\ board.cells[z].adjacentMines = 0
       /\ f # z /\ f.row - z.row \in -1..1 /\ f.col - z.col \in -1..1
       /\ board.cells[f].state = "flagged"
       /\ ~board.cells[f].hasMine /\ board.cells[f].adjacentMines = 0
       /\ board.cells[n].state = "revealed" /\ board.cells[n].adjacentMines > 0

C7_SafeMovesExact ==
  pc = "idle" =>
    LET cells == board.cells
        adjacent(a, c) == a # c /\ a.row - c.row \in -1..1 /\ a.col - c.col \in -1..1
        satisfied(c) ==
          /\ cells[c].state = "revealed" /\ cells[c].adjacentMines > 0
          /\ Cardinality({f \in DOMAIN cells : adjacent(f, c) /\ cells[f].state = "flagged"})
               = cells[c].adjacentMines
        moves == findSafeMoves(board)
        satisfiedCells == {c \in DOMAIN cells : satisfied(c)}
    IN /\ \A i, j \in 1..Len(moves) : moves[i] = moves[j] => i = j
       /\ {moves[i] : i \in 1..Len(moves)} =
            {q \in DOMAIN cells :
               cells[q].state = "hidden" /\ \E c \in satisfiedCells : adjacent(q, c)}

\* C7 witness: two revealed clue cells have all their mines flagged and share a
\* hidden neighbour.
C7_Witness ==
  /\ pc = "idle"
  /\ \E c1, c2 \in DOMAIN board.cells :
       /\ c1 # c2
       /\ \E i \in 1..Len(safeMovesAround(board, c1)) :
            \E j \in 1..Len(safeMovesAround(board, c2)) :
              safeMovesAround(board, c1)[i] = safeMovesAround(board, c2)[j]

\* C8: generateBoard returns a board with every cell hidden, gameStatus 'playing'
\* and mineCount equal to the number of cells with a mine, also when more mines
\* are requested than there are cells outside the safe zone.
C8_GeneratedBoard ==
  (pc = "idle" /\ path # "none" /\ ops = 0) =>
    /\ \A q \in DOMAIN board.cells : board.cells[q].state = "hidden"
    /\ board.gameStatus = "playing"
    /\ board.mineCount = Cardinality({q \in DOMAIN board.cells : board.cells[q].hasMine})

\* C9: on every board reached from a generateBoard result,
\* revealedCount <= width * height - mineCount.
C9_RevealedBound ==
  (pc = "idle" /\ path # "none") =>
    board.revealedCount <= board.width * board.height - board.mineCount

\* C10 (as claimed): after generateBoard(w, h, m, p) with m >= 1 and revealCell at
\* p, gameStatus is 'playing' and revealedCount >= 1.
C10_FirstClickKeepsPlaying ==
  [][(/\ pc = "idle" /\ path # "none" /\ ops = 0 /\ ops' = 1
      /\ genArgs.mineCount >= 1
      /\ genArgs.safeZone \in Positions(W, H)
      /\ board' = revealCell(board, genArgs.safeZone))
     => (board'.gameStatus = "playing" /\ board'.revealedCount >= 1)]_vars

\* C10 (amended): after generateBoard(w, h, m, p) with m >= 1 and revealCell at p,
\* gameStatus is 'playing' or 'won', never 'lost', and revealedCount >= 1.
C10_FirstClickNeverLoses ==
  [][(/\ pc = "idle" /\ path # "none" /\ ops = 0 /\ ops' = 1
      /\ genArgs.mineCount >= 1
      /\ genArgs.safeZone \in Positions(W, H)
      /\ board' = revealCell(board, genArgs.safeZone))
     => (board'.gameStatus \in {"playing", "won"} /\ board'.revealedCount >= 1)]_vars

\* C10 witness: the first call on a generated board with mines revealed p and its
\* neighbourhood, and the game goes on.
C10_Witness ==
  /\ pc = "idle" /\ path # "none" /\ ops = 1
  /\ genArgs.mineCount >= 1
  /\ genArgs.safeZone \in Positions(W, H)
  /\ board.cells[genArgs.safeZone].state = "revealed"
  /\ \E q \in DOMAIN board.cells : board.cells[q].hasMine
  /\ board.gameStatus = "playing" /\ board.revealedCount >= 2

\* C11: toggleFlag returns the board unchanged when the position is out of bounds
\* or the cell is 'revealed', 'mine' or 'exploded'; otherwise only the target cell
\* changes, hidden->flagged with flaggedCount + 1 or flagged->hidden with
\* flaggedCount - 1, and every other cell and field stays.
C11_ToggleFlagFrame ==
  pc = "idle" =>
    \A p \in CallPositions :
      LET after == toggleFlag(board, p)
      IN IF \/ p \notin DOMAIN board.cells
            \/ board.cells[p].state \in {"revealed", "mine", "exploded"}
           THEN after = board
           ELSE /\ board.cells[p].state \in {"hidden", "flagged"}
                /\ after.cells =
                     [board.cells EXCEPT ![p].state = IF board.cells[p].state = "hidden"
                                                        THEN "flagged" ELSE "hidden"]
                /\ after.flaggedCount = board.flaggedCount +
                     (IF board.cells[p].state = "hidden" THEN 1 ELSE -1)
                /\ after.revealedCount = board.revealedCount
                /\ after.mineCount = board.mineCount
                /\ after.gameStatus = board.gameStatus
                /\ after.firstClick = board.firstClick
                /\ after.width = board.width /\ after.height = board.height

\* C11 witness: on a lost board, with a cell shown as 'mine' and one 'exploded', a
\* flag has been toggled on a hidden cell.
C11_Witness ==
  /\ pc = "idle" /\ path # "none"
  /\ board.gameStatus = "lost"
  /\ board.flaggedCount = 1
  /\ \E q \in DOMAIN board.cells : board.cells[q].state = "flagged"
  /\ \E q \in DOMAIN board.cells : board.cells[q].state = "exploded"

\* C12: on every reachable board, toggleFlag applied twice to a hidden cell gives
\* back the same board (cell hidden, flaggedCount as before), and toggleFlag on a
\* revealed cell returns the board as it is.
C12_DoubleToggle ==
  pc = "idle" =>
    \A p \in DOMAIN board.cells :
      /\ board.cells[p].state = "hidden" =>
           /\ toggleFlag(board, p).cells[p].state = "flagged"
           /\ toggleFlag(toggleFlag(board, p), p) = board
      /\ board.cells[p].state = "revealed" => toggleFlag(board, p) = board

\* C12 witness: a board in play with a hidden, a flagged and a revealed cell.
C12_Witness ==
  /\ pc = "idle" /\ path # "none" /\ board.gameStatus = "playing"
  /\ \E q \in DOMAIN board.cells : board.cells[q].state = "hidden"
  /\ \E q \in DOMAIN board.cells : board.cells[q].state = "flagged"
  /\ \E q \in DOMAIN board.cells : board.cells[q].state = "revealed"

\* C13: revealCell returns the board as it is when the position is out of bounds or
\* the target cell is 'revealed' or 'flagged'; a flagged mine is never detonated.
C13_RevealNoOp ==
  pc = "idle" =>
    \A p \in CallPositions :
      (\/ p \notin DOMAIN board.cells
       \/ board.cells[p].state \in {"revealed", "flagged"})
      => revealCell(board, p) = board

\* C13 witness: a board in play with a flag on a mine and a revealed cell.
C13_Witness ==
  /\ pc = "idle" /\ path # "none" /\ board.gameStatus = "playing"
  /\ \E q \in DOMAIN board.cells : board.cells[q].state = "flagged" /\ board.cells[q].hasMine
  /\ \E q \in DOMAIN board.cells : board.cells[q].state = "revealed"

\* C14: over any sequence of revealCell and toggleFlag calls a cell's state changes
\* only hidden->flagged, hidden->revealed, hidden->exploded, flagged->hidden, or a
\* mined cell turns to 'mine' at the loss; a cell that is 'revealed', 'mine' or
\* 'exploded' never changes state again.
C14_CellTransitions ==
  [][\A q \in DOMAIN board.cells :
       LET old == board.cells[q].state
           new == board'.cells[q].state
       IN \/ new = old
          \/ old = "hidden" /\ new \in {"flagged", "revealed", "exploded"}
          \/ old = "flagged" /\ new = "hidden"
          \/ /\ old \in {"hidden", "flagged"} /\ new = "mine"
             /\ board.cells[q].hasMine /\ board'.gameStatus = "lost"]_vars

\* C15: in every state reached by revealCell and toggleFlag calls, a cell in state
\* 'exploded' or 'mine' exists only when gameStatus is 'lost', and at most one cell
\* is 'exploded'.
C15_DisplayStatesOnlyWhenLost ==
  pc = "idle" =>
    /\ (\E q \in DOMAIN board.cells : board.cells[q].state \in {"exploded", "mine"})
         => board.gameStatus = "lost"
    /\ Cardinality({q \in DOMAIN board.cells : board.cells[q].state = "exploded"}) <= 1

\* C17: on every board generateBoard returns, and on every board an anti-clustered
\* attempt produces, each cell without a mine has adjacentMines equal to the number
\* of its in-bounds 8-neighbours with a mine, and every adjacentMines is in 0..8.
C17_AdjacentMinesExact ==
  LET neighbourMines(b, q) ==
        Cardinality({n \in DOMAIN b.cells :
                       /\ n # q /\ n.row - q.row \in -1..1 /\ n.col - q.col \in -1..1
                       /\ b.cells[n].hasMine})
      exact(b) == \A q \in DOMAIN b.cells :
                    /\ ~b.cells[q].hasMine => b.cells[q].adjacentMines = neighbourMines(b, q)
                    /\ b.cells[q].adjacentMines \in 0..8
  IN /\ (pc = "idle" /\ path # "none" /\ ops = 0) => exact(board)
     /\ (pc = "generating" /\ attempts = 0) =>
          \A candidate \in createBoardWithMines(W, H, genArgs.mineCount, genArgs.safeZone) :
            exact(candidate)

\* C17 witness: a returned board on which a cell has a mine diagonally next to it
\* and a clue of 2.
C17_Witness ==
  /\ pc = "idle" /\ path = "fallback" /\ ops = 0
  /\ \E q, n \in DOMAIN board.cells :
       /\ ~board.cells[q].hasMine /\ board.cells[q].adjacentMines = 2
       /\ board.cells[n].hasMine /\ n.row # q.row /\ n.col # q.col

\* C18: analyzeBoard returns no hint when gameStatus is not 'playing' or firstClick
\* is set; otherwise a 'safe' hint with confidence 1 when findSafeMoves is not
\* empty, else a 'logical' hint with confidence 0.9 when a mine-certain move exists
\* (a hidden neighbour of a revealed clue n > 0 whose hidden and flagged neighbours
\* number n), else the first entry of findProbabilityMoves as a 'probability' hint
\* with that entry's probability; the suggested position is a hidden cell.
C18_AnalyzeBoardPriority ==
  pc = "idle" =>
    LET cells == board.cells
        hint == analyzeBoard(board)
        adjacent(a, c) == a # c /\ a.row - c.row \in -1..1 /\ a.col - c.col \in -1..1
        around(c, st) == {q \in DOMAIN cells : adjacent(q, c) /\ cells[q].state = st}
        mineCertain == \E c \in DOMAIN cells :
                         /\ cells[c].state = "revealed" /\ cells[c].adjacentMines > 0
                         /\ around(c, "hidden") # {}
                         /\ Cardinality(around(c, "hidden")) + Cardinality(around(c, "flagged"))
                              = cells[c].adjacentMines
        ranked == findProbabilityMoves(board)
    IN /\ (board.gameStatus # "playing" \/ board.firstClick) => hint = NoHint
       /\ (board.gameStatus = "playing" /\ ~board.firstClick) =>
            IF Len(findSafeMoves(board)) > 0
              THEN hint.moveType = "safe" /\ hint.confidence = [num |-> 1, den |-> 1]
            ELSE IF mineCertain
              THEN hint.moveType = "logical" /\ hint.confidence = [num |-> 9, den |-> 10]
            ELSE IF Len(ranked) > 0
              THEN /\ hint.moveType = "probability"
                   /\ hint.suggestedMove = ranked[1].position
                   /\ hint.confidence = ranked[1].probability
            ELSE TRUE
       /\ hint # NoHint => /\ hint.suggestedMove \in DOMAIN cells
                           /\ cells[hint.suggestedMove].state = "hidden"

\* C19: on every reachable board, with any number of flags, every probability
\* findProbabilityMoves returns and the confidence of every hint analyzeBoard
\* returns lie in [0, 1].
C19_ProbabilityRange ==
  pc = "idle" =>
    LET inUnit(x) == x.den > 0 /\ 0 <= x.num /\ x.num <= x.den
        ranked == findProbabilityMoves(board)
        hint == analyzeBoard(board)
    IN /\ \A i \in 1..Len(ranked) : inUnit(ranked[i].probability)
       /\ hint # NoHint => inUnit(hint.confidence)

\* C20: findLogicalMoves returns the positions that must hold mines: every hidden
\* neighbour of a revealed cell with clue n > 0 whose hidden and flagged neighbours
\* number n.
C20_LogicalMovesFound ==
  pc = "idle" =>
    LET cells == board.cells
        adjacent(a, c) == a # c /\ a.row - c.row \in -1..1 /\ a.col - c.col \in -1..1
        around(c, st) == {q \in DOMAIN cells : adjacent(q, c) /\ cells[q].state = st}
        forced(c) == /\ cells[c].state = "revealed" /\ cells[c].adjacentMines > 0
                     /\ Cardinality(around(c, "hidden")) + Cardinality(around(c, "flagged"))
                          = cells[c].adjacentMines
    IN SeqToSet(findLogicalMoves(board)) =
         {q \in DOMAIN cells :
            cells[q].state = "hidden" /\ \E c \in DOMAIN cells : adjacent(q, c) /\ forced(c)}

\* C16: in GameBoard mines are placed once per game, at the first reveal: a board
\* that still waits for its first click has no mine, and after the first reveal no
\* click, flag toggle or hint request changes any cell's hasMine or adjacentMines
\* until a new game is started (the only step back to firstClick).
C16_MinesPlacedOnce ==
  [][/\ board.firstClick => \A q \in DOMAIN board.cells : ~board.cells[q].hasMine
     /\ (~board.firstClick /\ ~board'.firstClick) =>
          \A q \in DOMAIN board.cells :
            /\ board'.cells[q].hasMine = board.cells[q].hasMine
            /\ board'.cells[q].adjacentMines = board.cells[q].adjacentMines]_vars

\* C16 witness: a game with mines, still in play after the first reveal, a flag
\* toggle and a hint request.
C16_Witness ==
  /\ ops = 3 /\ ~board.firstClick /\ board.gameStatus = "playing"
  /\ \E q \in DOMAIN board.cells : board.cells[q].hasMine
  /\ \E q \in DOMAIN board.cells : board.cells[q].state = "revealed"
  /\ game.hintsUsed = 1
  /\ board.flaggedCount = 1

C22_ValidateSolvabilityExact ==
  LET nonMines == board.width * board.height - board.mineCount
      RECURSIVE rounds(_, _)
      rounds(tb, n) ==
        LET hiddenSafe == {p \in SeqToSet(findSafeMoves(tb)) : tb.cells[p].state = "hidden"}
        IN IF n = 100 \/ hiddenSafe = {} THEN tb
           ELSE rounds([tb EXCEPT
                          !.cells = [p \in DOMAIN tb.cells |->
                             IF p \in hiddenSafe
                               THEN [tb.cells[p] EXCEPT !.state = "revealed"]
                               ELSE tb.cells[p]],
                          !.revealedCount = tb.revealedCount + Cardinality(hiddenSafe)],
                       n + 1)
      final == rounds(board, 0)
  IN validateSolvability(board) <=>
       \/ final.revealedCount >= nonMines
       \/ nonMines > 0 /\ 10 * final.revealedCount > 7 * nonMines

\* a board in play that the simulation accepts after revealing cells
C22_Witness ==
  /\ board.gameStatus = "playing" /\ ~board.firstClick
  /\ board.flaggedCount > 0
  /\ findSafeMoves(board) # <<>>
  /\ validateSolvability(board)

\* C30: generateBoard makes at most 50 anti-clustered attempts; the board it
\* returns on the anti-clustered path is a candidate of an attempt numbered below
\* 50 that validateSolvability accepts, unchanged by optimizeMineDistribution;
\* the placeMines fallback is returned only when 50 attempts were rejected.
C30_GenerateBoardAttempts ==
  [][/\ attempts' <= maxAttempts
     /\ (pc = "generating" /\ pc' = "idle" /\ path' = "anticlustered") =>
          /\ attempts < maxAttempts
          /\ board' \in createBoardWithMines(W, H, genArgs.mineCount, genArgs.safeZone)
          /\ validateSolvability(board')
     /\ (pc = "generating" /\ pc' = "idle" /\ path' = "fallback") =>
          attempts = maxAttempts]_vars

\* the fallback board is returned after fifty rejected attempts
C30_Witness ==
  pc = "idle" /\ path = "fallback" /\ attempts = maxAttempts /\ ops = 0

\* C23: calculateMineCount returns the tier's baseMines while fewer than 3 games
\* are recorded; from the third game on it returns
\* max(floor(0.7 * baseMines), min(maxMines, baseMines + adjustment)), the
\* adjustment being the sum of the win-rate band (> 0.8: +3, > 0.6: +1, < 0.3: -3,
\* < 0.5: -1), the trend term (streak > 2: +1, streak < -2: -1), the long-streak
\* term (streak >= 5: +2, streak <= -3: -2) and the hint penalty (more than 3
\* hints per game: -1); every value returned lies between floor(0.7 * baseMines)
\* and maxMines.
C23_MineCountFormula ==
  LET st == adapter.playerStats
      tier == difficultySettings[st.preferredDifficulty]
      lower == (7 * tier.baseMines) \div 10
      band == IF 10 * st.gamesWon > 8 * st.gamesPlayed THEN 3
              ELSE IF 10 * st.gamesWon > 6 * st.gamesPlayed THEN 1
              ELSE IF 10 * st.gamesWon < 3 * st.gamesPlayed THEN -3
              ELSE IF 10 * st.gamesWon < 5 * st.gamesPlayed THEN -1
              ELSE 0
      trend == IF st.currentStreak > 2 THEN 1 ELSE IF st.currentStreak < -2 THEN -1 ELSE 0
      long == IF st.currentStreak >= 5 THEN 2 ELSE IF st.currentStreak <= -3 THEN -2 ELSE 0
      hint == IF st.hintsUsed > 3 * st.gamesPlayed THEN -1 ELSE 0
      wanted == tier.baseMines + band + trend + long + hint
      clamped == IF wanted > tier.maxMines THEN tier.maxMines
                 ELSE IF wanted < lower THEN lower ELSE wanted
      result == calculateMineCount(st)
  IN /\ st.gamesPlayed < 3 => result = tier.baseMines
     /\ st.gamesPlayed >= 3 => result = clamped
     /\ result \in lower..tier.maxMines
     /\ adapter.mineCount # -1 => adapter.mineCount \in lower..tier.maxMines

\* calculateMineCount has returned the lower bound for a player on a long losing
\* run who leans on hints
C23_Witness ==
  LET st == adapter.playerStats
      tier == difficultySettings[st.preferredDifficulty]
  IN /\ st.gamesPlayed >= 3 /\ st.currentStreak <= -3 /\ st.hintsUsed > 3 * st.gamesPlayed
     /\ adapter.mineCount = (7 * tier.baseMines) \div 10
     /\ adapter.mineCount = calculateMineCount(st)
     /\ tier.baseMines + mineCountAdjustment(st) < adapter.mineCount

\* C25: after any sequence of results given to adjustDifficulty, gamesPlayed is
\* the number of results, gamesWon the number of wins among them (so at most
\* gamesPlayed), and currentStreak is the length of the run of wins the sequence
\* ends with when the last game was won, and minus the length of the run of
\* losses it ends with when the last game was lost.
C25_StreakIsRunLength ==
  LET results == adapter.results
      st == adapter.playerStats
      n == Len(results)
      \* the results from index k to the end are all like the last one
      sameToEnd(k) == \A j \in k..n : results[j] = results[n]
      run == n + 1 - CHOOSE k \in 1..n : sameToEnd(k) /\ (k = 1 \/ ~sameToEnd(k - 1))
  IN /\ st.gamesPlayed = n
     /\ st.gamesWon = Cardinality({j \in 1..n : results[j]})
     /\ st.gamesWon <= st.gamesPlayed
     /\ n > 0 => st.currentStreak = IF results[n] THEN run ELSE -run

\* two losses recorded after two wins
C25_Witness ==
  /\ Len(adapter.results) = 4
  /\ adapter.results = <<TRUE, TRUE, FALSE, FALSE>>
  /\ adapter.playerStats.currentStreak = -2

C26_SerializeRoundTrip ==
  LET restored == deserializeBoard(serializeBoard(board))
  IN /\ restored # NoBoard
     /\ restored = board

\* a board in play with a revealed and a flagged cell, saved as it is
C26_Witness ==
  /\ board.gameStatus = "playing" /\ board.revealedCount > 0 /\ board.flaggedCount > 0
  /\ game.storage = serializeBoard(board)
  /\ \E p, q \in Positions(W, H) :
       /\ p.col # q.col
       /\ board.cells[p].hasMine /\ ~board.cells[q].hasMine

C28_NewGameFresh ==
  [][(NewGame \/ HandleNewGame) =>
       /\ \A p \in Positions(W, H) :
            board'.cells[p].state = "hidden" /\ ~board'.cells[p].hasMine
       /\ board'.revealedCount = 0 /\ board'.flaggedCount = 0
       /\ board'.gameStatus = "playing" /\ board'.firstClick]_vars

\* C27: for a stored value that is not JSON, that lacks a required field, whose
\* gameStatus or a cell state is outside the enumeration, or whose cells array
\* is not height rows of width cells, deserializeBoard and loadGameState return
\* null (no exception leaves them), and the GameBoard mounted on it starts from
\* an empty board.
C27_MalformedSnapshotRejected ==
  game.storage \in MalformedValues =>
    /\ deserializeBoard(game.storage) = NoBoard
    /\ loadGameState(game.storage) = NoBoard
    /\ board = createEmptyBoard(W, H)

\* GameBoard was mounted again on a snapshot with a cell state outside the
\* enumeration
C27_Witness ==
  /\ ops > 0
  /\ game.storage \in MalformedValues
  /\ game.storage.text = "json"
  /\ prop(game.storage.value, "cells").type = "array"
  /\ LET rows == prop(game.storage.value, "cells").items
     IN \E r \in 1..Len(rows) :
          /\ rows[r].type = "array"
          /\ \E c \in 1..Len(rows[r].items) :
               prop(rows[r].items[c], "state") = JString("open")

C32_FloodFillBounded ==
  [][(ops' = ops + 1 /\ board'.revealedCount > board.revealedCount) =>
       \A p \in Positions(W, H) :
         (/\ board.cells[p].adjacentMines = 0 /\ ~board.cells[p].hasMine
          /\ board.cells[p].state # "revealed" /\ board'.cells[p].state = "revealed"
          /\ board' = revealCell(board, p)) =>
           LET start == [cells |-> [board.cells EXCEPT ![p].state = "revealed"],
                         count |-> board.revealedCount + 1,
                         stack |-> <<p>>]
               run == floodFillTrace(board, start, {}, <<>>, 0)
           IN /\ run.st.cells = board'.cells
              /\ run.st.count = board'.revealedCount
              /\ run.st.stack = <<>>
              /\ \A i, j \in 1..Len(run.expanded) :
                   run.expanded[i] = run.expanded[j] => i = j
              /\ run.iterations <= board.width * board.height
              /\ run.st.count - board.revealedCount =
                   Cardinality({q \in Positions(W, H) :
                                  /\ board.cells[q].state # "revealed"
                                  /\ run.st.cells[q].state = "revealed"})]_vars

\* a flood fill that expanded two cells without a clue and stopped at a
\* numbered cell on a board with a mine
C32_Witness ==
  /\ pc = "idle" /\ ops = 1 /\ board.mineCount > 0
  /\ Cardinality({q \in Positions(W, H) :
                    board.cells[q].state = "revealed" /\ board.cells[q].adjacentMines = 0}) >= 2
  /\ \E q \in Positions(W, H) :
       board.cells[q].state = "revealed" /\ board.cells[q].adjacentMines > 0

\* C33 (as stated): in no reachable state does analyzeBoard return a hint with
\* moveType 'logical', nor one with confidence 0.9.
C33_NeverLogicalNorNineTenths ==
  LET hint == analyzeBoard(board)
  IN /\ hint.moveType # "logical"
     /\ 10 * hint.confidence.num # 9 * hint.confidence.den

\* C33 (amended): findLogicalMoves returns the empty list for every board, so
\* analyzeBoard never returns a hint with moveType 'logical'; a hint with
\* confidence 0.9 is a probability hint.
C33_NeverLogical ==
  LET hint == analyzeBoard(board)
  IN /\ findLogicalMoves(board) = <<>>
     /\ hint.moveType # "logical"
     /\ 10 * hint.confidence.num = 9 * hint.confidence.den => hint.moveType = "probability"

\* a hint was computed on a board where a revealed clue is matched by its hidden
\* and flagged neighbours (the case the loop of findLogicalMoves detects) and no
\* move is safe
C33_Witness ==
  /\ game.hintsUsed = 1
  /\ board.gameStatus = "playing" /\ ~board.firstClick
  /\ findSafeMoves(board) = <<>>
  /\ \E p \in Positions(HintW, HintH) : logicalMovesAround_collects(board, p) # <<>>
  /\ analyzeBoard(board).moveType = "probability"

\* C34: when several moves are safe, analyzeBoard suggests, as a safe move with
\* confidence 1, the first position of findSafeMoves whose information gain is
\* maximal among the positions of findSafeMoves; the gain of a cell with
\* adjacentMines 0 is 10, that of any other cell the number of its hidden
\* neighbours.
C34_BestSafeMoveMaximal ==
  LET safeMoves == findSafeMoves(board)
      hint == analyzeBoard(board)
      gain(p) ==
        IF board.cells[p].adjacentMines = 0 THEN 10
        ELSE Cardinality({q \in Positions(board.width, board.height) :
                            /\ q # p
                            /\ Abs(q.row - p.row) <= 1 /\ Abs(q.col - p.col) <= 1
                            /\ board.cells[q].state = "hidden"})
  IN (board.gameStatus = "playing" /\ ~board.firstClick /\ Len(safeMoves) > 1) =>
       /\ hint.moveType = "safe"
       /\ hint.confidence = [num |-> 1, den |-> 1]
       /\ \E k \in 1..Len(safeMoves) :
            /\ hint.suggestedMove = safeMoves[k]
            /\ \A j \in 1..Len(safeMoves) : gain(safeMoves[j]) <= gain(safeMoves[k])
            /\ \A j \in 1..(k - 1) : gain(safeMoves[j]) < gain(safeMoves[k])

\* a hint was computed where the first safe move has a smaller gain than the
\* suggested one and a later safe move has the same gain as the suggested one
C34_Witness ==
  /\ game.hintsUsed = 1
  /\ board.gameStatus = "playing" /\ ~board.firstClick
  /\ LET safeMoves == findSafeMoves(board)
     IN /\ Len(safeMoves) > 2
        /\ game.hintedPosition # safeMoves[1]
        /\ calculateInformationGain(board, safeMoves[1])
             < calculateInformationGain(board, game.hintedPosition)
        /\ \E j \in 1..Len(safeMoves) :
             /\ safeMoves[j] # game.hintedPosition
             /\ calculateInformationGain(board, safeMoves[j])
                  = calculateInformationGain(board, game.hintedPosition)

C36_RevealedCountExact ==
  pc = "idle" =>
    board.revealedCount =
      Cardinality({p \in Positions(W, H) : board.cells[p].state = "revealed"})

\* a generated board with a mine on which a flood fill revealed at least three
\* cells and a second call revealed or flagged something more
C36_Witness ==
  /\ pc = "idle" /\ ops = 2 /\ board.mineCount > 0
  /\ \E p \in Positions(W, H) : board.cells[p].hasMine
  /\ board.revealedCount >= 3
  /\ \E p \in Positions(W, H) :
       board.cells[p].state = "revealed" /\ board.cells[p].adjacentMines = 0
  /\ \E p \in Positions(W, H) : board.cells[p].state = "flagged"

\* C37: in every state reached by revealCell and toggleFlag calls, the states
\* after a loss included, flaggedCount is the number of cells whose state is
\* 'flagged'.
C37_FlaggedCountExact ==
  pc = "idle" =>
    board.flaggedCount =
      Cardinality({p \in Positions(W, H) : board.cells[p].state = "flagged"})

\* C38: in GameBoard a step that changes the board before the first reveal, other
\* than a new game or a remount, toggles a flag on the empty board; and the first
\* reveal (the step that ends firstClick) replaces the board with a freshly
\* generated one: right after it no cell is flagged and flaggedCount is 0,
\* whatever was flagged before.
C38_FirstRevealDiscardsFlags ==
  [][/\ (/\ board.firstClick /\ board.gameStatus = "playing"
         /\ board'.firstClick /\ board' # board
         /\ ~(NewGame \/ HandleNewGame \/ Reload)) =>
          \E p \in Positions(W, H) :
            /\ board' = toggleFlag(board, p)
            /\ board'.cells[p].state # board.cells[p].state
            /\ board'.cells[p].state \in {"hidden", "flagged"}
     /\ (/\ board.firstClick /\ board.gameStatus = "playing"
         /\ ~board'.firstClick
         /\ ~(HandleNewGame \/ Reload)) =>
          /\ board'.flaggedCount = 0
          /\ \A p \in Positions(W, H) : board'.cells[p].state # "flagged"
          /\ board'.revealedCount >= 1]_vars

\* two cells are flagged on the board that waits for its first click, and a
\* click can still be made
C38_Witness ==
  /\ board.firstClick /\ board.gameStatus = "playing"
  /\ board.flaggedCount = 2
  /\ Cardinality({p \in Positions(W, H) : board.cells[p].state = "flagged"}) = 2
  /\ game.mineCount > 0
  /\ ops < MaxHandlerCalls

\* C39: in GameBoard, once gameStatus is 'won' or 'lost', a cell click, a
\* right-click and a hint request are ignored: every step other than a New Game
\* activation (newGame, Game.handleNewGame) or a reload leaves the board,
\* hintsUsed and the hinted position as they are, so the status stays 'won' or
\* 'lost' within the game.
C39_FinishedGameIgnoresInput ==
  [][(board.gameStatus \in {"won", "lost"} /\ ~(NewGame \/ HandleNewGame \/ Reload)) =>
       /\ board' = board
       /\ game'.hintsUsed = game.hintsUsed
       /\ game'.hintedPosition = game.hintedPosition]_vars

\* a game lost at the second click, with one more handler call made
C39_Witness ==
  /\ ops = 3 /\ board.gameStatus = "lost"
  /\ \E p \in Positions(W, H) : board.cells[p].state = "exploded"
  /\ \E p \in Positions(W, H) : board.cells[p].state = "revealed"
  /\ \E p \in Positions(W, H) : board.cells[p].state = "hidden"
  /\ game.storage = NoItem

\* C40: given the same starting statistics and the same sequence of game results,
\* updatePlayerStats of utils/storage.ts and adjustDifficulty /
\* updatePerformanceMetrics of the difficulty adapter produce the same
\* gamesPlayed, gamesWon, hintsUsed, averageTime and currentStreak.
C40_StatsRoutinesAgree ==
  /\ adapter.gameStats.gamesPlayed = adapter.playerStats.gamesPlayed
  /\ adapter.gameStats.gamesWon = adapter.playerStats.gamesWon
  /\ adapter.gameStats.hintsUsed = adapter.playerStats.hintsUsed
  /\ adapter.gameStats.averageTime = adapter.playerStats.averageTime
  /\ adapter.gameStats.currentStreak = adapter.playerStats.currentStreak

====
